---- MODULE Spec2Model ----
(***************************************************************************)
(* Model of the SOU-RasPi edge ticket gateway: the ticket codec            *)
(* (ticket_parser.py), the per-gate ticket store and validator            *)
(* (ticket_database.py), the fetch worker (fetch_service.py), the push     *)
(* worker (sync_service.py) and the cleanup worker (cleanup_service.py).  *)
(*                                                                         *)
(* Granularity.  Every store operation opens its own sqlite3 connection.  *)
(* Python's sqlite3 module runs SELECT statements in autocommit mode and   *)
(* opens a transaction implicitly before the first INSERT/UPDATE/DELETE;   *)
(* the transaction holds the database write lock until commit.  So each   *)
(* SELECT is one atomic step, and everything from the first write         *)
(* statement of an operation to its commit is one atomic step; the values  *)
(* an operation read before its first write are kept in its locals and    *)
(* may be stale when the write runs.                                      *)
(*                                                                         *)
(* Dates.  Calendar days are numbered; the strings 'YYYYMMDD' and          *)
(* 'YYYY-MM-DD' of one day are both represented by the day's number, and  *)
(* the lexicographic order of the ISO strings is the order of the numbers. *)
(***************************************************************************)
EXTENDS Integers, Sequences, FiniteSets, TLC

(* ------------------------------ bounds -------------------------------- *)
MaxPax == 2
MaxScans == 2
MaxFetch == 1
TagSpace == 8

(* --------------------------- configuration ---------------------------- *)
Gates == {"A", "B", "C"}
Stores == {"AttractionA", "AttractionB", "AttractionC"}
attractions == <<"AttractionA", "AttractionB", "AttractionC">>
GateCodes == {"01", "02", "03"}
gate_mapping == [g \in Gates |-> CASE g = "A" -> "01" [] g = "B" -> "02" [] OTHER -> "03"]
secret_key == 5
Days == {1, 2}
Serials == {3}

Max(a, b) == IF a >= b THEN a ELSE b

(* ------------------------------- codec -------------------------------- *)
(* A ticket string 'DATE-SERIAL-GATES-TAG' is a record of its '-' parts:   *)
(* parts is the number of parts, dateOK says that the first part is eight  *)
(* digits (date is then its day), serialOK that the second is digits,     *)
(* gatesLen4 that the third has a length divisible by 4, gatesEmpty that   *)
(* it is the empty string, codesOK and paxDigits that the gate-code halves *)
(* and the passenger halves of its groups are decimal digits only, paxOK   *)
(* that int() accepts its passenger halves (it accepts '+7' and ' 7' too;  *)
(* gate_info is then the decoded map, 0 for a gate without a group), tag is *)
(* the hex value of the last part with its letter case; ascii says that   *)
(* the upper-cased last part has ASCII characters only.                   *)
QRGateInfos == {g \in [GateCodes -> 0..MaxPax] : g["02"] <= 1 /\ g["03"] = 0}

GoodQR(d, s, g, t) ==
  [parts |-> 4, dateOK |-> TRUE, date |-> d, serialOK |-> TRUE, serial |-> s,
   gatesLen4 |-> TRUE, gatesEmpty |-> FALSE, codesOK |-> TRUE, paxDigits |-> TRUE,
   paxOK |-> TRUE, gate_info |-> g, tag |-> t]

generate_verification_code(ticket_data) ==
  [hex |-> (ticket_data.date * 5 + ticket_data.serial * 3
            + ticket_data.gate_info["01"] * 7 + ticket_data.gate_info["02"] * 11
            + ticket_data.gate_info["03"] * 13 + secret_key) % TagSpace,
   upper |-> TRUE, ascii |-> TRUE]

Upper(code) == [code EXCEPT !.upper = TRUE]

verify_verification_code(ticket_data, provided_code) ==
  generate_verification_code(ticket_data) = Upper(provided_code)

TicketData(qr) == [date |-> qr.date, serial |-> qr.serial, gate_info |-> qr.gate_info]

(* hmac.compare_digest raises TypeError for a str that is not ASCII-only;  *)
(* verify_verification_code and parse_qr_code do not catch it              *)
compare_digest_raises(provided_norm) == ~provided_norm.ascii

StructurallyParses(qr) ==
  qr.parts >= 4 /\ qr.dateOK /\ qr.serialOK /\ qr.gatesLen4 /\ qr.paxOK

parse_qr_code_raises(qr) == StructurallyParses(qr) /\ compare_digest_raises(Upper(qr.tag))

parse_qr_code(qr) ==
  LET bad(e) == [valid |-> FALSE, error |-> e, date |-> 0, serial |-> 0,
                 gate_info |-> [c \in GateCodes |-> 0]]
  IN IF qr.parts < 4 THEN bad("Invalid QR format - not enough parts")
     ELSE IF ~qr.dateOK THEN bad("Invalid date format")
     ELSE IF ~qr.serialOK THEN bad("Invalid serial format")
     ELSE IF ~qr.gatesLen4 THEN bad("Invalid gates format")
     ELSE IF ~qr.paxOK THEN bad("Invalid passenger count in gates")
     ELSE LET ok == verify_verification_code(TicketData(qr), qr.tag)
          IN [valid |-> ok,
              error |-> IF ok THEN "None" ELSE "Invalid verification code",
              date |-> qr.date, serial |-> qr.serial, gate_info |-> qr.gate_info]

(* The scanned strings: well-formed ones with a verifying tag (in either   *)
(* letter case) or a corrupted tag, and one string per structural defect.  *)
QRTags(d, s, g) ==
  LET t == generate_verification_code([date |-> d, serial |-> s, gate_info |-> g])
  IN {t, [t EXCEPT !.upper = FALSE], [t EXCEPT !.hex = (t.hex + 1) % TagSpace]}

WellFormedQR ==
  UNION {{GoodQR(d, s, g, t) : t \in QRTags(d, s, g)} :
           <<d, s, g>> \in Days \X Serials \X QRGateInfos}

MalformedQR ==
  LET g0 == [c \in GateCodes |-> IF c = "01" THEN 1 ELSE 0]
      q == GoodQR(1, 3, g0, generate_verification_code([date |-> 1, serial |-> 3, gate_info |-> g0]))
  IN UNION {{[q EXCEPT !.date = d, !.parts = 3], [q EXCEPT !.date = d, !.dateOK = FALSE],
             [q EXCEPT !.date = d, !.serialOK = FALSE], [q EXCEPT !.date = d, !.gatesLen4 = FALSE],
             [q EXCEPT !.date = d, !.paxOK = FALSE]} : d \in Days}

QRCodes == WellFormedQR \cup MalformedQR

reference_no(date, serial) == <<date, serial>>
Refs == Days \X Serials

(* ------------------------------- state -------------------------------- *)
Scanners == {"s1", "s2"}
ScanNames == {"A", "SOU Entry", "B", "AttractionC", "D"}

VARIABLES
  today,         \* the local calendar day (datetime.now())
  tickets,       \* tickets[st]: the rows of table tickets of store st, keyed by ticket_no
  scan_history,  \* scan_history[st]: the rows of table scan_history of store st, oldest first
  spc,           \* spc[s]: where scanner s is inside a validation call
  sloc,          \* sloc[s]: the locals of that call
  decision,      \* decision[s]: what the last call of scanner s returned
  nScans,        \* validation calls started so far
  fpc, floc,     \* the fetch worker: position and locals
  nFetch,        \* manifest records the fetch worker has taken up so far
  ppc, ploc,     \* the push worker: position and locals
  admitted,      \* admitted[st][r][g]: 'Valid Entry' decisions returned by store st for ref r at gate g
  accepted,      \* accepted[r]: whether the central service accepted a payload of ref r, and the used counts of the last one
  mgr,           \* the ServiceManager: its position, its fields and the worker processes it started
  codec,         \* the last call of the ticket codec: its input and what came of it
  cln,           \* the cleanup worker: its position, its clock and the backups of its cycle
  frun           \* FetchService.run: its position, its failure counter and its next sleep

vars == <<today, tickets, scan_history, spc, sloc, decision, nScans,
          fpc, floc, nFetch, ppc, ploc, admitted, accepted, mgr, codec, cln, frun>>
scanVars == <<spc, sloc, decision, nScans>>
fetchVars == <<fpc, floc, nFetch>>
pushVars == <<ppc, ploc>>

ZeroMap == [g \in Gates |-> 0]
NoGateInfo == [c \in GateCodes |-> 0]
RawQR == <<0, 0>>   \* history key of a scan whose string gave no reference number

IdleLoc == [op |-> "none", call |-> 0, verified |-> FALSE,
            store |-> "AttractionA", ref |-> RawQR, short |-> "A",
            persons_allowed |-> 0, gate_info |-> NoGateInfo, today_str |-> 0,
            found |-> FALSE, pax_db |-> 0, used_db |-> 0, date_db |-> 0]
NoDecision == [op |-> "none", call |-> 0, store |-> "AttractionA", valid |-> FALSE,
               reason |-> <<"none">>, persons_allowed |-> 0, persons_entered |-> 0]

Row(date, pax, used, synced) ==
  [booking_date |-> date, pax |-> pax, used |-> used, is_synced |-> synced]

HasRow(st, r) == r \in DOMAIN tickets[st]

(* INSERT INTO tickets: adds the row under its primary key *)
InsertRow(tk, r, row) == [x \in DOMAIN tk \cup {r} |-> IF x = r THEN row ELSE tk[x]]

(* a log that records every scan as FAILED *)
HistRowAllFailed(ticket_no, result, reason) ==
  [ticket_no |-> ticket_no, day |-> today, result |-> "FAILED", reason |-> reason]

HistRow(ticket_no, result, reason) ==
  [ticket_no |-> ticket_no, day |-> today, result |-> result, reason |-> reason]

(* the reasons of a decision and of a history row, as tuples of their pieces *)
InvalidDate == <<"Invalid date - Ticket not valid for today">>
DateMismatchLog == <<"Ticket date mismatch - Ticket is for ">>
DbDateMismatchLog == <<"Ticket date mismatch - Database booking date is ">>
InvalidQR(e) == <<"Invalid QR - ", e>>
NotFound == <<"Invalid QR - Ticket not found">>
AttractionMismatch(short) == <<"Attraction mismatch - Ticket not valid for ", short>>
AllUsed == <<"QR already scanned - All entries used">>
ValidEntry == <<"Valid Entry">>

(* attraction_name -> attraction_short *)
attraction_short(name) ==
  CASE name = "AttractionC" -> "C"
    [] name = "SOU Entry" -> "A"
    [] name = "Jungle Safari" -> "B"
    [] name = "Cactus Garden" -> "C"
    [] OTHER -> name

(* gate_mapping.get(short), falling back to the first gate code of the mapping *)
(* a gate code that is the first mapped code whatever the gate *)
gate_code_first(short) == gate_mapping["A"]

gate_code(short) == IF short \in Gates THEN gate_mapping[short] ELSE gate_mapping["A"]

(* the records of the manifest of the central service *)
ServerRecords ==
  {[bookingDate |-> d, pax |-> [g \in Gates |-> CASE g = "A" -> a [] g = "B" -> 1 [] OTHER -> 0],
    used |-> [g \in Gates |-> IF g = "A" THEN u ELSE 0]] :
     <<d, a, u>> \in {x \in Days \X (1..MaxPax) \X (0..MaxPax) : x[3] <= x[2]}}
NoRecord == [bookingDate |-> 0, pax |-> ZeroMap, used |-> ZeroMap]

IdleFetch == [today |-> 0, ticket_no |-> RawQR, rec |-> NoRecord, i |-> 0,
              existing |-> FALSE, has_used |-> FALSE, current_used |-> ZeroMap]
NoAgg == [referenceNo |-> FALSE, bookingDate |-> 0, pax |-> ZeroMap, used |-> ZeroMap]
IdlePush == [i |-> 0, unsynced |-> {}, cur |-> RawQR, agg |-> NoAgg, merged |-> <<>>]
NoneAccepted == [any |-> FALSE, used |-> ZeroMap]

(* the services in the order start_all_services starts them, a worker       *)
(* process slot (gen counts the processes started under the name, asked and *)
(* killed whether the current one was sent terminate() and kill(),          *)
(* orphans the processes started under the name that were alive when the    *)
(* next one took their place in self.processes), and the                    *)
(* ServiceManager after __init__ (requested records that a termination      *)
(* signal was delivered, at_check the crashes seen when the last health     *)
(* check began)                                                             *)
Services == <<"fetch", "sync", "cleanup">>
ServiceNames == {Services[k] : k \in 1..Len(Services)}
NoProcess == [state |-> "none", gen |-> 0, asked |-> FALSE, killed |-> FALSE, orphans |-> 0]
NoManager ==
  [pc |-> "init", running |-> FALSE, requested |-> FALSE, enabled |-> ServiceNames,
   processes |-> {}, proc |-> [n \in ServiceNames |-> NoProcess], i |-> 0,
   crashes |-> 0, at_check |-> 0]

(* the cleanup worker before its first check: minute is the minute of the   *)
(* hour on its clock, fired the number of cycles it started in the trigger  *)
(* window of the current hour, backed the stores backed up in this cycle    *)
NoCleaner == [pc |-> "check", i |-> 0, minute |-> 30, fired |-> 0, backed |-> {}]
NoRun == [pc |-> "loop", retrieved |-> FALSE, consecutive_failures |-> 0, wait_time |-> 0]

NoQR == [GoodQR(0, 0, NoGateInfo, [hex |-> 0, upper |-> TRUE, ascii |-> TRUE]) EXCEPT !.parts = 0]
NoCodec == [op |-> "none", qr |-> NoQR, raised |-> FALSE, valid |-> FALSE]

Init ==
  /\ today = 1
  /\ tickets = [st \in Stores |-> [r \in {} |-> 0]]
  /\ scan_history = [st \in Stores |-> <<>>]
  /\ spc = [s \in Scanners |-> "idle"]
  /\ sloc = [s \in Scanners |-> IdleLoc]
  /\ decision = [s \in Scanners |-> NoDecision]
  /\ nScans = 0
  /\ fpc = "idle" /\ floc = IdleFetch /\ nFetch = 0
  /\ ppc = "idle" /\ ploc = IdlePush
  /\ admitted = [st \in Stores |-> [r \in Refs |-> ZeroMap]]
  /\ accepted = [r \in Refs |-> NoneAccepted]
  /\ mgr = NoManager
  /\ codec = NoCodec
  /\ cln = NoCleaner
  /\ frun = NoRun

(* --------------------- TicketDatabase: validation --------------------- *)
(* a call raises: the exception leaves the call, the connection is dropped    *)
(* with whatever it had not committed, and the caller has no decision.      *)
(* sloc[s] keeps the locals of the last call of s until its next call.      *)
Raised == <<"raised">>

(* the number of the call scanner s is in or is starting: calls are numbered *)
(* in the order they start                                                  *)
CallNo(s) == IF spc[s] = "idle" THEN nScans + 1 ELSE sloc[s].call

Raise(s, op, st) ==
  /\ decision' = [decision EXCEPT ![s] =
        [op |-> op, call |-> CallNo(s), store |-> st, valid |-> FALSE, reason |-> Raised,
         persons_allowed |-> 0, persons_entered |-> 0]]
  /\ spc' = [spc EXCEPT ![s] = "idle"]

(* a call returns: the decision is recorded and the scanner is idle again *)
Return(s, op, st, valid, reason, allowed, entered) ==
  /\ decision' = [decision EXCEPT ![s] =
        [op |-> op, call |-> CallNo(s), store |-> st, valid |-> valid, reason |-> reason,
         persons_allowed |-> allowed, persons_entered |-> entered]]
  /\ spc' = [spc EXCEPT ![s] = "idle"]

(* a validator that writes no history *)
LogNothing(st, ticket_no, result, reason) == UNCHANGED scan_history

Log(st, ticket_no, result, reason) ==
  scan_history' = [scan_history EXCEPT ![st] = Append(@, HistRow(ticket_no, result, reason))]

(* validate_and_log_ticket, from its start to the SELECT of the ticket row *)
ScanStart(s, st, qr, name) ==
  /\ spc[s] = "idle"
  /\ nScans' = nScans + 1
  /\ LET parsed == parse_qr_code(qr)
         ref == reference_no(parsed.date, parsed.serial)
         short == attraction_short(name)
         persons_allowed == parsed.gate_info[gate_code(short)]
     IN IF qr.dateOK /\ qr.date # today
        THEN /\ Log(st, RawQR, "FAILED", DateMismatchLog)
             /\ Return(s, "log", st, FALSE, InvalidDate, 0, 0)
             /\ sloc' = [sloc EXCEPT ![s] = IdleLoc]
        ELSE IF parse_qr_code_raises(qr)
        THEN \* hmac.compare_digest: TypeError
             /\ Raise(s, "log", st)
             /\ sloc' = [sloc EXCEPT ![s] = IdleLoc]
             /\ UNCHANGED scan_history
        ELSE IF ~parsed.valid
        THEN /\ Log(st, RawQR, "FAILED", <<parsed.error>>)
             /\ Return(s, "log", st, FALSE, InvalidQR(parsed.error), 0, 0)
             /\ sloc' = [sloc EXCEPT ![s] = IdleLoc]
        ELSE IF persons_allowed = 0
        THEN /\ Log(st, ref, "FAILED", AttractionMismatch(short))
             /\ Return(s, "log", st, FALSE, AttractionMismatch(short), 0, 0)
             /\ sloc' = [sloc EXCEPT ![s] = IdleLoc]
        ELSE IF short \notin Gates
        THEN \* SELECT <short>_pax ...: sqlite3.OperationalError, no such column
             /\ Raise(s, "log", st)
             /\ sloc' = [sloc EXCEPT ![s] = IdleLoc]
             /\ UNCHANGED scan_history
        ELSE /\ spc' = [spc EXCEPT ![s] = "update"]
             /\ sloc' = [sloc EXCEPT ![s] =
                  [op |-> "log", call |-> CallNo(s),
                   verified |-> parsed.valid /\ parsed.date = today,
                   store |-> st, ref |-> ref, short |-> short,
                   persons_allowed |-> persons_allowed, gate_info |-> parsed.gate_info,
                   today_str |-> today, found |-> HasRow(st, ref),
                   pax_db |-> IF HasRow(st, ref) THEN tickets[st][ref].pax[short] ELSE 0,
                   used_db |-> IF HasRow(st, ref) THEN tickets[st][ref].used[short] ELSE 0,
                   date_db |-> IF HasRow(st, ref) THEN tickets[st][ref].booking_date ELSE 0]]
             /\ UNCHANGED <<decision, scan_history>>
  /\ UNCHANGED <<today, mgr, frun, codec, cln, tickets, fetchVars, pushVars, admitted, accepted>>

(* a call of validate_and_log_ticket, while the number of calls is bounded *)
ScanBegin(s, st, qr, name) == nScans < MaxScans /\ ScanStart(s, st, qr, name)

(* an UPDATE that leaves the counter as it is *)
IncrementKeepsCount(tk, r, g) == [tk EXCEPT ![r] = [@ EXCEPT !.is_synced = 0]]

(* an UPDATE without the condition used < pax *)
IncrementUnconditional(tk, r, g) == r \in DOMAIN tk

(* UPDATE tickets SET used = used + 1, is_synced = 0 WHERE ticket_no = ? AND used < pax *)
IncrementApplies(tk, r, g) == r \in DOMAIN tk /\ tk[r].used[g] < tk[r].pax[g]
Increment(tk, r, g) ==
  [tk EXCEPT ![r] = [@ EXCEPT !.used = [@ EXCEPT ![g] = @ + 1], !.is_synced = 0]]

Admit(st, r, g) == admitted' = [admitted EXCEPT ![st][r][g] = @ + 1]

(* validate_and_log_ticket, from the offline-birth INSERT or the stored-date *)
(* check to the commit: one write transaction working on the row as it is   *)
(* now and on the locals read by ScanBegin                                 *)
ScanFinish(s) ==
  /\ spc[s] = "update"
  /\ sloc[s].op = "log"
  /\ UNCHANGED <<today, mgr, frun, codec, cln, sloc, nScans, fetchVars, pushVars, accepted>>
  /\ LET l == sloc[s]
         st == l.store
         r == l.ref
         g == l.short
         born == Row(r[1], [x \in Gates |-> l.gate_info[gate_mapping[x]]], ZeroMap, 0)
         tk == IF l.found THEN tickets[st] ELSE InsertRow(tickets[st], r, born)
         persons_entered == IF l.found THEN l.used_db ELSE 0
         persons_allowed == IF l.found /\ l.pax_db # l.persons_allowed
                            THEN l.pax_db ELSE l.persons_allowed
     IN IF ~l.found /\ HasRow(st, r)
        THEN \* INSERT INTO tickets: sqlite3.IntegrityError, UNIQUE constraint failed
             /\ Raise(s, "log", st)
             /\ UNCHANGED <<scan_history, tickets, admitted>>
        ELSE IF l.found /\ l.date_db # l.today_str
        THEN /\ Log(st, r, "FAILED", DbDateMismatchLog)
             /\ Return(s, "log", st, FALSE, InvalidDate, 0, 0)
             /\ UNCHANGED <<tickets, admitted>>
        ELSE IF persons_entered >= persons_allowed
        THEN /\ Log(st, r, "FAILED", AllUsed)
             /\ Return(s, "log", st, FALSE, AllUsed, persons_allowed, persons_entered)
             /\ tickets' = [tickets EXCEPT ![st] = tk]
             /\ UNCHANGED admitted
        ELSE IF ~IncrementApplies(tk, r, g)
        THEN \* rowcount = 0: the count is read again
             /\ Log(st, r, "FAILED", AllUsed)
             /\ Return(s, "log", st, FALSE, AllUsed, persons_allowed,
                       IF r \in DOMAIN tk THEN tk[r].used[g] ELSE persons_entered)
             /\ tickets' = [tickets EXCEPT ![st] = tk]
             /\ UNCHANGED admitted
        ELSE /\ tickets' = [tickets EXCEPT ![st] = Increment(tk, r, g)]
             /\ Log(st, r, "SUCCESS", ValidEntry)
             /\ Return(s, "log", st, TRUE, ValidEntry, persons_allowed, persons_entered + 1)
             /\ Admit(st, r, g)

NoLocals(s) == sloc' = [sloc EXCEPT ![s] = IdleLoc]

(* the scanner process dies inside validate_and_log_ticket after its SELECT  *)
(* and before conn.commit(): the UPDATE and the INSERT into scan_history     *)
(* belong to one transaction, which is rolled back, so nothing of the call   *)
(* is written and no decision is returned                                     *)
Crashed == <<"crashed">>
ScanCrash(s) ==
  /\ spc[s] = "update"
  /\ sloc[s].op = "log"
  /\ decision' = [decision EXCEPT ![s] =
        [op |-> "log", call |-> sloc[s].call, store |-> sloc[s].store, valid |-> FALSE,
         reason |-> Crashed, persons_allowed |-> 0, persons_entered |-> 0]]
  /\ spc' = [spc EXCEPT ![s] = "idle"]
  /\ UNCHANGED <<today, mgr, frun, codec, cln, tickets, scan_history, sloc, nScans, fetchVars, pushVars,
                 admitted, accepted>>

(* the string 'DATE-SERIAL' of a ticket number: two parts, no gates, no tag *)
TicketNoString(ticket_no) ==
  [parts |-> 2, dateOK |-> TRUE, date |-> ticket_no[1], serialOK |-> TRUE, serial |-> ticket_no[2],
   gatesLen4 |-> FALSE, gatesEmpty |-> FALSE, codesOK |-> FALSE, paxDigits |-> FALSE,
   paxOK |-> FALSE, gate_info |-> NoGateInfo,
   tag |-> [hex |-> 0, upper |-> TRUE, ascii |-> TRUE]]

(* validate_ticket with a ticket number of fewer than four parts (a string   *)
(* of four or more parts is handed to validate_and_log_ticket): from its   *)
(* start to the checks on the row it read                                  *)
LegacyStart(s, st, ticket_no, name) ==
  /\ spc[s] = "idle"
  /\ nScans' = nScans + 1
  /\ LET short == attraction_short(name)
         row == tickets[st][ticket_no]
     IN IF ticket_no[1] # today
        THEN Return(s, "legacy", st, FALSE, InvalidDate, 0, 0) /\ NoLocals(s)
        ELSE IF short \notin Gates
        THEN \* SELECT <short>_pax ...: sqlite3.OperationalError, no such column
             Raise(s, "legacy", st) /\ NoLocals(s)
        ELSE IF ~HasRow(st, ticket_no)
        THEN Return(s, "legacy", st, FALSE, NotFound, 0, 0) /\ NoLocals(s)
        ELSE IF row.booking_date # today
        THEN Return(s, "legacy", st, FALSE, InvalidDate, 0, 0) /\ NoLocals(s)
        ELSE IF row.pax[short] = 0
        THEN Return(s, "legacy", st, FALSE, AttractionMismatch(short), 0, 0) /\ NoLocals(s)
        ELSE IF row.used[short] >= row.pax[short]
        THEN /\ Return(s, "legacy", st, FALSE, AllUsed, row.pax[short], row.used[short])
             /\ NoLocals(s)
        ELSE /\ spc' = [spc EXCEPT ![s] = "update"]
             /\ sloc' = [sloc EXCEPT ![s] =
                  [IdleLoc EXCEPT !.op = "legacy", !.call = CallNo(s),
                                  !.verified = parse_qr_code(TicketNoString(ticket_no)).valid
                                               /\ ticket_no[1] = today,
                                  !.store = st, !.ref = ticket_no,
                                  !.short = short, !.found = TRUE,
                                  !.pax_db = row.pax[short], !.used_db = row.used[short]]]
             /\ UNCHANGED decision
  /\ UNCHANGED <<today, mgr, frun, codec, cln, tickets, scan_history, fetchVars, pushVars, admitted, accepted>>

(* a call of validate_ticket, while the number of calls is bounded *)
LegacyBegin(s, st, ticket_no, name) == nScans < MaxScans /\ LegacyStart(s, st, ticket_no, name)

(* validate_ticket: the conditional UPDATE and its commit *)
LegacyFinish(s) ==
  /\ spc[s] = "update"
  /\ sloc[s].op = "legacy"
  /\ UNCHANGED <<today, mgr, frun, codec, cln, scan_history, sloc, nScans, fetchVars, pushVars, accepted>>
  /\ LET l == sloc[s]
         st == l.store
     IN IF ~IncrementApplies(tickets[st], l.ref, l.short)
        THEN /\ Return(s, "legacy", st, FALSE, AllUsed, l.pax_db, l.used_db)
             /\ UNCHANGED <<tickets, admitted>>
        ELSE /\ tickets' = [tickets EXCEPT ![st] = Increment(@, l.ref, l.short)]
             /\ Return(s, "legacy", st, TRUE, ValidEntry, l.pax_db, l.used_db + 1)
             /\ Admit(st, l.ref, l.short)

(* log_scan returns None *)
Returned == <<"returned">>

(* log_scan: connect, INSERT INTO scan_history, commit, close, with no      *)
(* exception handler. written is whether the INSERT and the commit went     *)
(* through; when they did not (the database is locked, the disk is full)    *)
(* sqlite3.OperationalError leaves the call and nothing is written.         *)
log_scan(s, st, ticket_no, result, reason, written) ==
  /\ spc[s] = "idle"
  /\ nScans < MaxScans
  /\ nScans' = nScans + 1
  /\ IF written
     THEN /\ Log(st, ticket_no, result, reason)
          /\ Return(s, "log_scan", st, FALSE, Returned, 0, 0)
     ELSE /\ UNCHANGED scan_history
          /\ Raise(s, "log_scan", st)
  /\ NoLocals(s)
  /\ UNCHANGED <<today, mgr, frun, codec, cln, tickets, fetchVars, pushVars, admitted, accepted>>

(* ----------------------------- codec calls ----------------------------- *)
(* code = generate_verification_code(ticket_data), then                     *)
(* verify_verification_code(ticket_data, code), as test_ticket_parser does  *)
GenerateThenVerify(ticket_data) ==
  /\ LET code == generate_verification_code(ticket_data)
     IN codec' = [op |-> "verify",
                  qr |-> GoodQR(ticket_data.date, ticket_data.serial, ticket_data.gate_info, code),
                  raised |-> compare_digest_raises(Upper(code)),
                  valid |-> /\ ~compare_digest_raises(Upper(code))
                            /\ verify_verification_code(ticket_data, code)]
  /\ UNCHANGED <<today, mgr, frun, cln, tickets, scan_history, scanVars, fetchVars, pushVars, admitted, accepted>>

(* parse_qr_code(qr): it returns its dict, or the TypeError of              *)
(* hmac.compare_digest leaves it                                            *)
ParseQR(qr) ==
  /\ codec' = [op |-> "parse", qr |-> qr, raised |-> parse_qr_code_raises(qr),
               valid |-> ~parse_qr_code_raises(qr) /\ parse_qr_code(qr).valid]
  /\ UNCHANGED <<today, mgr, frun, cln, tickets, scan_history, scanVars, fetchVars, pushVars, admitted, accepted>>

(* ---------------------------- fetch worker ---------------------------- *)
(* run_fetch_cycle: the manifest has been retrieved (or not: the cycle then *)
(* ends at once, as it does for an empty manifest); process_tickets reads   *)
(* today's date once                                                       *)
FetchCycle ==
  /\ fpc = "idle"
  /\ fpc' = "record"
  /\ floc' = [IdleFetch EXCEPT !.today = today]
  /\ UNCHANGED <<today, mgr, frun, codec, cln, tickets, scan_history, scanVars, nFetch, pushVars, admitted, accepted>>

(* run_fetch_cycle seen from closer: fetch_tickets_from_server starts; floc.i *)
(* counts the attempts that have failed                                      *)
retry_attempts == 3
FetchOutcomes == {"manifest", "empty", "connection", "timeout", "request", "json", "other"}

FetchGet ==
  /\ fpc = "idle"
  /\ fpc' = "get"
  /\ floc' = IdleFetch
  /\ UNCHANGED <<today, mgr, frun, codec, cln, tickets, scan_history, scanVars, nFetch, pushVars, admitted, accepted>>

(* a fetch worker that empties the first store when the manifest did not come *)
FetchAttemptPoison(outcome) ==
  /\ fpc = "get"
  /\ IF outcome = "manifest"
     THEN /\ fpc' = "record"
          /\ floc' = [IdleFetch EXCEPT !.today = today]
          /\ UNCHANGED tickets
     ELSE /\ fpc' = "idle"
          /\ floc' = [IdleFetch EXCEPT !.i = floc.i + 1]
          /\ tickets' = [tickets EXCEPT ![attractions[1]] = [r \in {} |-> 0]]
  /\ UNCHANGED <<today, mgr, frun, codec, cln, scan_history, scanVars, nFetch, pushVars, admitted, accepted>>

(* fetch_tickets_from_server: one attempt of the GET. A manifest with       *)
(* records goes to process_tickets; an empty one ends the cycle; a          *)
(* connection, timeout or other request error is retried until the          *)
(* attempts are used up and then gives None; a response that is not JSON    *)
(* or any other exception gives None at once; None ends the cycle           *)
fetch_tickets_from_server(outcome) ==
  IF outcome = "manifest"
  THEN /\ fpc' = "record"
       /\ floc' = [IdleFetch EXCEPT !.today = today]
  ELSE IF outcome = "empty"
  THEN /\ fpc' = "idle"
       /\ floc' = [IdleFetch EXCEPT !.i = floc.i]
  ELSE IF outcome \in {"connection", "timeout", "request"} /\ floc.i < retry_attempts - 1
  THEN /\ fpc' = "get"
       /\ floc' = [floc EXCEPT !.i = @ + 1]
  ELSE /\ fpc' = "idle"
       /\ floc' = [IdleFetch EXCEPT !.i = floc.i + 1]

FetchAttempt(outcome) ==
  /\ fpc = "get"
  /\ fetch_tickets_from_server(outcome)
  /\ UNCHANGED <<today, mgr, frun, codec, cln, tickets, scan_history, scanVars, nFetch, pushVars, admitted, accepted>>

(* process_tickets: the manifest (or the failed retrieval) has nothing more *)
FetchDone ==
  /\ fpc = "record"
  /\ fpc' = "idle"
  /\ floc' = IdleFetch
  /\ UNCHANGED <<today, mgr, frun, codec, cln, tickets, scan_history, scanVars, nFetch, pushVars, admitted, accepted>>

(* a process_tickets that hands every well-formed record to add_ticket *)
FetchRecordAnyDate(ticket_no, rec, wellformed) ==
  /\ fpc = "record"
  /\ nFetch < MaxFetch
  /\ nFetch' = nFetch + 1
  /\ IF wellformed
     THEN /\ fpc' = "select"
          /\ floc' = [floc EXCEPT !.ticket_no = ticket_no, !.rec = rec, !.i = 1]
     ELSE UNCHANGED <<fpc, floc>>
  /\ UNCHANGED <<today, mgr, frun, codec, cln, tickets, scan_history, scanVars, pushVars, admitted, accepted>>

(* process_tickets: the next record of the manifest; a record that lacks a  *)
(* field or is not for today is skipped                                    *)
FetchRecord(ticket_no, rec, wellformed) ==
  /\ fpc = "record"
  /\ nFetch < MaxFetch
  /\ nFetch' = nFetch + 1
  /\ IF wellformed /\ rec.bookingDate = floc.today
     THEN /\ fpc' = "select"
          /\ floc' = [floc EXCEPT !.ticket_no = ticket_no, !.rec = rec, !.i = 1]
     ELSE UNCHANGED <<fpc, floc>>
  /\ UNCHANGED <<today, mgr, frun, codec, cln, tickets, scan_history, scanVars, pushVars, admitted, accepted>>

(* add_ticket: SELECT is_synced FROM tickets WHERE ticket_no = ?  (the      *)
(* ticket_exists call before it decides nothing: both branches of the       *)
(* caller make the same add_ticket call)                                    *)
AddTicketSelect ==
  /\ fpc = "select"
  /\ LET st == attractions[floc.i]
     IN /\ floc' = [floc EXCEPT !.existing = HasRow(st, floc.ticket_no)]
        /\ fpc' = IF HasRow(st, floc.ticket_no) THEN "used" ELSE "write"
  /\ UNCHANGED <<today, mgr, frun, codec, cln, tickets, scan_history, scanVars, nFetch, pushVars, admitted, accepted>>

(* add_ticket: SELECT A_used, B_used, C_used FROM tickets WHERE ticket_no = ? *)
AddTicketUsed ==
  /\ fpc = "used"
  /\ LET st == attractions[floc.i]
     IN floc' = [floc EXCEPT
                   !.has_used = HasRow(st, floc.ticket_no),
                   !.current_used = IF HasRow(st, floc.ticket_no)
                                    THEN tickets[st][floc.ticket_no].used ELSE ZeroMap]
  /\ fpc' = "write"
  /\ UNCHANGED <<today, mgr, frun, codec, cln, tickets, scan_history, scanVars, nFetch, pushVars, admitted, accepted>>

(* used counts that add up instead of taking the larger one *)
new_used_sum(current_used, server_used) ==
  [g \in Gates |-> current_used[g] + server_used[g]]

(* the used counts add_ticket writes into an existing row *)
new_used(current_used, server_used) ==
  [g \in Gates |-> Max(current_used[g], server_used[g])]

(* an UPDATE that also marks the row as synced *)
UpdateRowSynced(row, rec, used) ==
  [row EXCEPT !.booking_date = rec.bookingDate, !.pax = rec.pax, !.used = used, !.is_synced = 1]

(* add_ticket: UPDATE tickets SET booking_date, reference_no, the pax and   *)
(* the used columns WHERE ticket_no = ?                                     *)
UpdateRow(row, rec, used) ==
  [row EXCEPT !.booking_date = rec.bookingDate, !.pax = rec.pax, !.used = used]

(* the rows of a store after the UPDATE or INSERT of add_ticket, given what  *)
(* its two SELECTs found: an UPDATE of a row that is gone changes nothing,  *)
(* an INSERT that hits an existing key raises and changes nothing           *)
add_ticket_write(tk, r, rec, existing, has_used, current_used) ==
  LET used == IF has_used THEN new_used(current_used, rec.used) ELSE rec.used
  IN IF existing
     THEN IF r \in DOMAIN tk THEN [tk EXCEPT ![r] = UpdateRow(@, rec, used)] ELSE tk
     ELSE IF r \in DOMAIN tk THEN tk
          ELSE InsertRow(tk, r, Row(rec.bookingDate, rec.pax, rec.used, 0))

(* add_ticket run from its first statement to its commit with no other      *)
(* writer in between: both SELECTs see the row the write works on           *)
add_ticket(tk, r, rec) ==
  add_ticket_write(tk, r, rec, r \in DOMAIN tk, r \in DOMAIN tk,
                   IF r \in DOMAIN tk THEN tk[r].used ELSE ZeroMap)

(* add_ticket: the UPDATE or INSERT and its commit (an INSERT that hits an  *)
(* existing key raises, the except clause returns False), then the caller   *)
(* goes on to the next store or the next record                             *)
AddTicketWrite ==
  /\ fpc = "write"
  /\ tickets' = [tickets EXCEPT ![attractions[floc.i]] =
        add_ticket_write(@, floc.ticket_no, floc.rec, floc.existing, floc.has_used,
                         floc.current_used)]
  /\ IF floc.i < Len(attractions)
     THEN /\ fpc' = "select"
          /\ floc' = [floc EXCEPT !.i = @ + 1, !.existing = FALSE, !.has_used = FALSE,
                                  !.current_used = ZeroMap]
     ELSE /\ fpc' = "record"
          /\ floc' = [IdleFetch EXCEPT !.today = floc.today]
  /\ UNCHANGED <<today, mgr, frun, codec, cln, scan_history, scanVars, nFetch, pushVars, admitted, accepted>>

(* ----------------------------- push worker ---------------------------- *)
(* run_sync_cycle -> sync_unsynced_tickets -> get_all_unsynced_tickets *)
PushCycle ==
  /\ ppc = "idle"
  /\ ppc' = "collect"
  /\ ploc' = [IdlePush EXCEPT !.i = 1]
  /\ UNCHANGED <<today, mgr, frun, codec, cln, tickets, scan_history, scanVars, fetchVars, admitted, accepted>>

(* get_unsynced_tickets: SELECT ticket_no FROM tickets WHERE is_synced = 0 *)
get_unsynced_tickets(st) == {r \in DOMAIN tickets[st] : tickets[st][r].is_synced = 0}

(* services.skip_dummy_sync, and a ticket_no that ends with '-dummy': a key  *)
(* with a third part                                                        *)
skip_dummy_sync == TRUE
IsDummy(r) == Len(r) = 3

(* an aggregation that keeps the counts of the store read last *)
MergeIntoLast(agg, row) ==
  [referenceNo |-> TRUE,
   bookingDate |-> IF agg.referenceNo THEN agg.bookingDate ELSE row.booking_date,
   pax |-> row.pax, used |-> row.used]

(* get_all_unsynced_tickets: the unsynced refs of the next store join the set; *)
(* after the last store an empty set ends the cycle                          *)
PushCollect ==
  /\ ppc = "collect"
  /\ LET set == ploc.unsynced \cup
                  {r \in get_unsynced_tickets(attractions[ploc.i]) :
                     ~(skip_dummy_sync /\ IsDummy(r))}
     IN IF ploc.i < Len(attractions)
        THEN /\ ploc' = [ploc EXCEPT !.unsynced = set, !.i = @ + 1]
             /\ ppc' = "collect"
        ELSE IF set = {}
        THEN /\ ploc' = IdlePush
             /\ ppc' = "idle"
        ELSE /\ ploc' = [ploc EXCEPT !.unsynced = set, !.i = 0]
             /\ ppc' = "merge"
  /\ UNCHANGED <<today, mgr, frun, codec, cln, tickets, scan_history, scanVars, fetchVars, admitted, accepted>>

(* get_all_unsynced_tickets: the next ticket_no of the set (a Python set has *)
(* no fixed order) gets a fresh aggregation record                           *)
PushPick(r) ==
  /\ ppc = "merge"
  /\ r \in ploc.unsynced
  /\ ploc' = [ploc EXCEPT !.unsynced = @ \ {r}, !.cur = r, !.agg = NoAgg, !.i = 1]
  /\ ppc' = "read"
  /\ UNCHANGED <<today, mgr, frun, codec, cln, tickets, scan_history, scanVars, fetchVars, admitted, accepted>>

(* the aggregation of one store's get_ticket_for_sync data into agg *)
MergeInto(agg, row) ==
  [referenceNo |-> TRUE,
   bookingDate |-> IF agg.referenceNo THEN agg.bookingDate ELSE row.booking_date,
   pax |-> [g \in Gates |-> Max(agg.pax[g], row.pax[g])],
   used |-> [g \in Gates |-> Max(agg.used[g], row.used[g])]]

(* get_all_unsynced_tickets: ticket_exists and get_ticket_for_sync on the   *)
(* next store; after the last store the record joins merged if any store    *)
(* held the ticket; when the set is used up the POSTs start                 *)
PushRead ==
  /\ ppc = "read"
  /\ LET st == attractions[ploc.i]
         agg == IF HasRow(st, ploc.cur) THEN MergeInto(ploc.agg, tickets[st][ploc.cur])
                ELSE ploc.agg
         merged == IF agg.referenceNo THEN Append(ploc.merged, <<ploc.cur, agg>>)
                   ELSE ploc.merged
     IN IF ploc.i < Len(attractions)
        THEN /\ ploc' = [ploc EXCEPT !.agg = agg, !.i = @ + 1]
             /\ ppc' = "read"
        ELSE IF ploc.unsynced # {}
        THEN /\ ploc' = [ploc EXCEPT !.agg = NoAgg, !.cur = RawQR, !.merged = merged, !.i = 0]
             /\ ppc' = "merge"
        ELSE IF merged = <<>>
        THEN /\ ploc' = IdlePush
             /\ ppc' = "idle"
        ELSE /\ ploc' = [ploc EXCEPT !.agg = NoAgg, !.cur = RawQR, !.merged = merged, !.i = 0]
             /\ ppc' = "post"
  /\ UNCHANGED <<today, mgr, frun, codec, cln, tickets, scan_history, scanVars, fetchVars, admitted, accepted>>

(* the push worker is through with the head of merged *)
NextPayload ==
  IF Len(ploc.merged) > 1
  THEN /\ ploc' = [ploc EXCEPT !.merged = Tail(@), !.i = 0]
       /\ ppc' = "post"
  ELSE /\ ploc' = IdlePush
       /\ ppc' = "idle"

(* a push worker that goes on to mark the ticket whatever the POST returned *)
PushPostMarksAnyway(ok) ==
  /\ ppc = "post"
  /\ accepted' = IF ok THEN [accepted EXCEPT ![Head(ploc.merged)[1]] =
                               [any |-> TRUE, used |-> Head(ploc.merged)[2].used]]
                       ELSE accepted
  /\ ploc' = [ploc EXCEPT !.i = 1]
  /\ ppc' = "mark"
  /\ UNCHANGED <<today, mgr, frun, codec, cln, tickets, scan_history, scanVars, fetchVars, admitted>>

(* sync_ticket_to_server for the next merged record: ok says whether one of *)
(* the attempts of the POST succeeded                                       *)
PushPost(ok) ==
  /\ ppc = "post"
  /\ LET r == Head(ploc.merged)[1]
         payload == Head(ploc.merged)[2]
     IN IF ok
        THEN /\ accepted' = [accepted EXCEPT ![r] = [any |-> TRUE, used |-> payload.used]]
             /\ ploc' = [ploc EXCEPT !.i = 1]
             /\ ppc' = "mark"
        ELSE /\ NextPayload
             /\ UNCHANGED accepted
  /\ UNCHANGED <<today, mgr, frun, codec, cln, tickets, scan_history, scanVars, fetchVars, admitted>>

(* sync_unsynced_tickets: ticket_exists and mark_ticket_synced on the next store *)
PushMark ==
  /\ ppc = "mark"
  /\ LET st == attractions[ploc.i]
         r == Head(ploc.merged)[1]
     IN /\ IF HasRow(st, r)
           THEN tickets' = [tickets EXCEPT ![st][r].is_synced = 1]
           ELSE UNCHANGED tickets
        /\ IF ploc.i < Len(attractions)
           THEN /\ ploc' = [ploc EXCEPT !.i = @ + 1]
                /\ ppc' = "mark"
           ELSE NextPayload
  /\ UNCHANGED <<today, mgr, frun, codec, cln, scan_history, scanVars, fetchVars, admitted, accepted>>

(* ---------------------------- cleanup worker -------------------------- *)
(* a date that is not a day back *)
get_today_date == today

get_yesterday_date == today - 1

(* cleanup_attraction_database, after its backup: DELETE FROM tickets WHERE  *)
(* booking_date <= yesterday, DELETE FROM scan_history WHERE DATE(scan_time) *)
(* <= yesterday, commit                                                     *)
DeleteOld(st) ==
  LET yesterday == get_yesterday_date
      keepRow(h) == ~(h.day <= yesterday)
      kept == {r \in DOMAIN tickets[st] : ~(tickets[st][r].booking_date <= yesterday)}
  IN /\ tickets' = [tickets EXCEPT ![st] = [r \in kept |-> tickets[st][r]]]
     /\ scan_history' = [scan_history EXCEPT ![st] = SelectSeq(@, keepRow)]

Cleanup(st) ==
  /\ DeleteOld(st)
  /\ UNCHANGED <<today, mgr, frun, codec, cln, scanVars, fetchVars, pushVars, admitted, accepted>>

(* the local date changes at midnight *)
Midnight ==
  /\ today + 1 \in Days
  /\ today' = today + 1
  /\ UNCHANGED <<mgr, frun, codec, cln, tickets, scan_history, scanVars, fetchVars, pushVars, admitted, accepted>>

(* ------------------- cleanup worker, step by step -------------------- *)
(* CleanupService.run on the worker's clock, in minutes of the hour. A sleep *)
(* lasts its time or up to MaxOversleep minutes more, a cycle up to MaxCycle *)
(* minutes.                                                                  *)
MaxCycle == 2
MaxOversleep == 1
MinutesPerHour == 60
window_last_minute == 5
sleep_after_cycle == 5
check_interval == 1

Advance(c, k) ==
  [c EXCEPT !.minute = (c.minute + k) % MinutesPerHour,
            !.fired = IF c.minute + k >= MinutesPerHour THEN 0 ELSE c.fired]

should_run_cleanup(c) == c.minute <= window_last_minute

(* run: should_run_cleanup(); run_cleanup_cycle starts when it says so *)
CleanCheck ==
  /\ cln.pc = "check"
  /\ cln' = IF should_run_cleanup(cln)
            THEN [cln EXCEPT !.pc = "backup", !.i = 1, !.fired = @ + 1, !.backed = {}]
            ELSE [cln EXCEPT !.pc = "sleep"]
  /\ UNCHANGED <<today, mgr, frun, codec, tickets, scan_history, scanVars, fetchVars, pushVars,
                 admitted, accepted>>

(* cleanup_all_databases: on to the next store, or the cycle is over *)
NextStore(c) ==
  IF c.i < Len(attractions) THEN [c EXCEPT !.pc = "backup", !.i = @ + 1]
  ELSE [c EXCEPT !.pc = "end", !.i = 0]

(* a cleanup that deletes whether or not the backup was made *)
AfterBackupAnyway(c, ok) ==
  [c EXCEPT !.pc = "delete", !.backed = IF ok THEN @ \cup {attractions[c.i]} ELSE @]

(* cleanup_attraction_database: backup_database copied the file (ok) or      *)
(* returned None, and the store is then skipped                              *)
AfterBackup(c, ok) ==
  IF ok THEN [c EXCEPT !.pc = "delete", !.backed = @ \cup {attractions[c.i]}]
  ELSE NextStore(c)

CleanBackup(ok) ==
  /\ cln.pc = "backup"
  /\ cln' = AfterBackup(cln, ok)
  /\ UNCHANGED <<today, mgr, frun, codec, tickets, scan_history, scanVars, fetchVars, pushVars,
                 admitted, accepted>>

(* cleanup_attraction_database: the two DELETEs and their commit (ok), or an *)
(* exception before the commit, which is caught: nothing is deleted          *)
CleanDelete(ok) ==
  /\ cln.pc = "delete"
  /\ IF ok THEN DeleteOld(attractions[cln.i]) ELSE UNCHANGED <<tickets, scan_history>>
  /\ cln' = NextStore(cln)
  /\ UNCHANGED <<today, mgr, frun, codec, scanVars, fetchVars, pushVars, admitted, accepted>>

(* run_cleanup_cycle returns, d minutes after it started *)
CleanEnd(d) ==
  /\ cln.pc = "end"
  /\ cln' = Advance([cln EXCEPT !.pc = "wait"], d)
  /\ UNCHANGED <<today, mgr, frun, codec, tickets, scan_history, scanVars, fetchVars, pushVars,
                 admitted, accepted>>

(* a worker that does not wait after its cycle *)
CleanWaitSkipped(o) ==
  /\ cln.pc = "wait"
  /\ cln' = [cln EXCEPT !.pc = "sleep"]
  /\ UNCHANGED <<today, mgr, frun, codec, tickets, scan_history, scanVars, fetchVars, pushVars,
                 admitted, accepted>>

(* run: time.sleep(300) after the cycle *)
CleanWait(o) ==
  /\ cln.pc = "wait"
  /\ cln' = Advance([cln EXCEPT !.pc = "sleep"], sleep_after_cycle + o)
  /\ UNCHANGED <<today, mgr, frun, codec, tickets, scan_history, scanVars, fetchVars, pushVars,
                 admitted, accepted>>

(* run: time.sleep(check_interval) *)
CleanSleep(o) ==
  /\ cln.pc = "sleep"
  /\ cln' = Advance([cln EXCEPT !.pc = "check"], check_interval + o)
  /\ UNCHANGED <<today, mgr, frun, codec, tickets, scan_history, scanVars, fetchVars, pushVars,
                 admitted, accepted>>

(* --------------------------- service manager ------------------------- *)
MaxCrashes == 2
dataVars == <<today, codec, cln, frun, tickets, scan_history, scanVars, fetchVars, pushVars, admitted, accepted>>

(* run: signal.signal(SIGINT, ...), signal.signal(SIGTERM, ...) *)
MgrInstall ==
  /\ mgr.pc = "init"
  /\ mgr' = [mgr EXCEPT !.pc = "start"]
  /\ UNCHANGED dataVars

(* start_fetch_service, start_sync_service, start_cleanup_service: a new    *)
(* process under the name when the service is enabled                       *)
start_service(m, name) ==
  IF name \in m.enabled
  THEN [m EXCEPT !.processes = @ \cup {name},
                 !.proc = [@ EXCEPT ![name] = [state |-> "alive", gen |-> @.gen + 1,
                                               asked |-> FALSE, killed |-> FALSE,
                                               orphans |-> IF @.state = "alive"
                                                           THEN @.orphans + 1 ELSE @.orphans]]]
  ELSE m

(* start_all_services *)
MgrStartAll ==
  /\ mgr.pc = "start"
  /\ mgr' = [start_service(start_service(start_service(
                 [mgr EXCEPT !.running = TRUE], "fetch"), "sync"), "cleanup")
             EXCEPT !.pc = "loop"]
  /\ UNCHANGED dataVars

(* run: while self.running *)
MgrLoop ==
  /\ mgr.pc = "loop"
  /\ mgr' = [mgr EXCEPT !.pc = IF mgr.running THEN "sleep" ELSE "stop"]
  /\ UNCHANGED dataVars

(* run: time.sleep(30) is over *)
MgrSleep ==
  /\ mgr.pc = "sleep"
  /\ mgr' = [mgr EXCEPT !.pc = "check"]
  /\ UNCHANGED dataVars

(* check_services_health *)
check_services_health ==
  /\ mgr.processes # {}
  /\ \A n \in mgr.processes : mgr.proc[n].state = "alive"

MgrCheck ==
  /\ mgr.pc = "check"
  /\ mgr' = IF check_services_health
            THEN [mgr EXCEPT !.pc = "loop", !.at_check = mgr.crashes]
            ELSE [mgr EXCEPT !.pc = "restart", !.i = 1, !.at_check = mgr.crashes]
  /\ UNCHANGED dataVars

(* a supervisor that looks at dead workers and leaves them dead *)
restart_nothing(m, name) == m

(* restart_service: the process is stopped if it is alive, then started *)
restart_service(m, name) ==
  IF name \in m.processes
  THEN start_service([m EXCEPT !.proc = [@ EXCEPT ![name] = [@ EXCEPT !.state = "dead"]]], name)
  ELSE m

(* a health poll that starts every service anew, alive or not, and stops    *)
(* none                                                                     *)
MgrRestartAll ==
  /\ mgr.pc = "restart"
  /\ LET name == Services[mgr.i]
         m == IF name \in mgr.processes THEN start_service(mgr, name) ELSE mgr
     IN mgr' = IF mgr.i < Len(Services) THEN [m EXCEPT !.i = @ + 1]
               ELSE [m EXCEPT !.pc = "loop", !.i = 0]
  /\ UNCHANGED dataVars

(* run: the next name of the loop over self.processes; restart_service when *)
(* its process is not alive                                                 *)
MgrRestart ==
  /\ mgr.pc = "restart"
  /\ LET name == Services[mgr.i]
         m == IF name \in mgr.processes /\ mgr.proc[name].state # "alive"
              THEN restart_service(mgr, name) ELSE mgr
     IN mgr' = IF mgr.i < Len(Services) THEN [m EXCEPT !.i = @ + 1]
               ELSE [m EXCEPT !.pc = "loop", !.i = 0]
  /\ UNCHANGED dataVars

(* stop_all_services is through with the name at mgr.i *)
NextToStop(m) ==
  IF m.i < Len(Services) THEN [m EXCEPT !.pc = "term", !.i = @ + 1]
  ELSE [m EXCEPT !.pc = "clear", !.i = 0]

(* run: finally; stop_all_services sets running to False *)
MgrStop ==
  /\ mgr.pc = "stop"
  /\ mgr' = [mgr EXCEPT !.pc = "term", !.running = FALSE, !.i = 1]
  /\ UNCHANGED dataVars

(* stop_all_services: process.terminate() when the process is alive *)
MgrTerminate ==
  /\ mgr.pc = "term"
  /\ LET name == Services[mgr.i]
     IN mgr' = IF name \in mgr.processes /\ mgr.proc[name].state = "alive"
               THEN [mgr EXCEPT !.pc = "join", !.proc = [@ EXCEPT ![name] = [@ EXCEPT !.asked = TRUE]]]
               ELSE NextToStop(mgr)
  /\ UNCHANGED dataVars

(* stop_all_services: process.join(timeout=10) returns, the worker having   *)
(* exited in the meantime or not                                            *)
MgrJoin(exited) ==
  /\ mgr.pc = "join"
  /\ LET name == Services[mgr.i]
     IN mgr' = IF exited \/ mgr.proc[name].state # "alive"
               THEN NextToStop([mgr EXCEPT !.proc = [@ EXCEPT ![name] = [@ EXCEPT !.state = "dead"]]])
               ELSE [mgr EXCEPT !.pc = "kill"]
  /\ UNCHANGED dataVars

(* stop_all_services: process.kill(), process.join() *)
MgrKill ==
  /\ mgr.pc = "kill"
  /\ mgr' = NextToStop([mgr EXCEPT !.proc = [@ EXCEPT ![Services[mgr.i]] =
                                               [@ EXCEPT !.state = "dead", !.killed = TRUE]]])
  /\ UNCHANGED dataVars

(* stop_all_services: self.processes.clear() *)
MgrClear ==
  /\ mgr.pc = "clear"
  /\ mgr' = [mgr EXCEPT !.pc = "done", !.processes = {}]
  /\ UNCHANGED dataVars

(* _signal_handler: SIGINT or SIGTERM is delivered to the supervisor once   *)
(* the handlers are installed                                               *)
Signal ==
  /\ mgr.pc \notin {"init", "done"}
  /\ mgr' = [mgr EXCEPT !.running = FALSE, !.requested = TRUE]
  /\ UNCHANGED dataVars

(* a worker process ends on its own *)
Crash(name) ==
  /\ mgr.proc[name].state = "alive"
  /\ mgr.crashes < MaxCrashes
  /\ mgr' = [mgr EXCEPT !.crashes = @ + 1,
                         !.proc = [@ EXCEPT ![name] = [@ EXCEPT !.state = "dead"]]]
  /\ UNCHANGED dataVars

(* --------------------------- specification ---------------------------- *)
(* the whole node on one day: a scanner process on the stores ScanStores and  *)
(* the fetch, push and cleanup workers on all stores                        *)
ScanStores == {"AttractionA"}
SpecNames == {"A", "B", "D"}
SpecScanners == {"s1"}
SpecQR == {q \in WellFormedQR : /\ q.gate_info["01"] = MaxPax /\ q.gate_info["02"] = 1
                                /\ parse_qr_code(q).valid /\ q.tag.upper}

Next ==
  \/ \E s \in SpecScanners, st \in ScanStores, qr \in SpecQR, name \in SpecNames :
        ScanBegin(s, st, qr, name)
  \/ \E s \in SpecScanners : ScanFinish(s)
  \/ FetchCycle
  \/ \E r \in Refs, rec \in ServerRecords, wf \in BOOLEAN : FetchRecord(r, rec, wf)
  \/ FetchDone
  \/ AddTicketSelect
  \/ AddTicketUsed
  \/ AddTicketWrite
  \/ PushCycle
  \/ PushCollect
  \/ \E r \in Refs : PushPick(r)
  \/ PushRead
  \/ \E ok \in BOOLEAN : PushPost(ok)
  \/ PushMark
  \/ \E st \in Stores : Cleanup(st)

Spec == Init /\ [][Next]_vars

(* the validator alone: two scanner processes on a store that holds nothing *)
(* or today's ticket with some of its entries used; every scanned string    *)
InitRows ==
  {[r \in {} |-> 0]} \cup
  {[r \in {<<1, 3>>} |->
      Row(1, [g \in Gates |-> CASE g = "A" -> a [] g = "B" -> b [] OTHER -> 0],
          [g \in Gates |-> IF g = "A" THEN u ELSE 0], y)] :
     <<a, b, u, y>> \in {x \in (0..MaxPax) \X (0..1) \X (0..MaxPax) \X {0, 1} : x[3] <= x[1]}}

InitScan ==
  /\ today = 1
  /\ tickets \in {[st \in Stores |-> IF st \in ScanStores THEN rows ELSE [r \in {} |-> 0]] :
                    rows \in InitRows}
  /\ scan_history = [st \in Stores |-> <<>>]
  /\ spc = [s \in Scanners |-> "idle"]
  /\ sloc = [s \in Scanners |-> IdleLoc]
  /\ decision = [s \in Scanners |-> NoDecision]
  /\ nScans = 0
  /\ fpc = "idle" /\ floc = IdleFetch /\ nFetch = 0
  /\ ppc = "idle" /\ ploc = IdlePush
  /\ admitted = [st \in Stores |-> [r \in Refs |-> ZeroMap]]
  /\ accepted = [r \in Refs |-> NoneAccepted]
  /\ mgr = NoManager
  /\ codec = NoCodec
  /\ cln = NoCleaner
  /\ frun = NoRun

NextScan ==
  \/ \E s \in Scanners, st \in ScanStores, qr \in QRCodes, name \in ScanNames :
        ScanBegin(s, st, qr, name)
  \/ \E s \in Scanners : ScanFinish(s)
  \/ \E s \in Scanners, st \in ScanStores, t \in Refs, name \in ScanNames :
        LegacyBegin(s, st, t, name)
  \/ \E s \in Scanners : LegacyFinish(s)

SpecScan == InitScan /\ [][NextScan]_vars

(* a scanner process and the push worker, with no manifest coming in *)
NextPush ==
  \/ \E s \in SpecScanners, st \in ScanStores, qr \in SpecQR, name \in SpecNames :
        ScanBegin(s, st, qr, name)
  \/ \E s \in SpecScanners : ScanFinish(s)
  \/ PushCycle
  \/ PushCollect
  \/ \E r \in Refs : PushPick(r)
  \/ PushRead
  \/ \E ok \in BOOLEAN : PushPost(ok)
  \/ PushMark

SpecPush == Init /\ [][NextPush]_vars

(* the same with a central service that accepts every POST and a push worker *)
(* that keeps cycling: SyncService.run is a loop that never ends, so a step  *)
(* of the push worker that stays possible is taken                          *)
PushStep ==
  \/ PushCycle
  \/ PushCollect
  \/ \E r \in Refs : PushPick(r)
  \/ PushRead
  \/ PushPost(TRUE)
  \/ PushMark

NextLive ==
  \/ \E s \in SpecScanners, st \in ScanStores, qr \in SpecQR, name \in SpecNames :
        ScanBegin(s, st, qr, name)
  \/ \E s \in SpecScanners : ScanFinish(s)
  \/ PushStep

LiveSpec == Init /\ [][NextLive]_vars /\ WF_vars(PushStep)

(* one scanner process alone on the store of its gate, which holds today's   *)
(* ticket with no entry used: every call scans that ticket at that gate,    *)
(* by its MAC-valid strings that carry a passenger for the gate or by its   *)
(* ticket number, and no call starts before the last one has ended          *)
MaxSeqScans == MaxPax + 2
TheTicket == <<1, 3>>
StoreOfGate(g) == CASE g = "A" -> "AttractionA" [] g = "B" -> "AttractionB" [] OTHER -> "AttractionC"
GateNames(g) == {n \in ScanNames : attraction_short(n) = g}
TicketStrings(g) ==
  {q \in QRCodes : /\ parse_qr_code(q).valid /\ q.date = today
                   /\ reference_no(q.date, q.serial) = TheTicket
                   /\ q.gate_info[gate_mapping[g]] >= 1}

InitSeq ==
  /\ today = 1
  /\ tickets \in {[st \in Stores |-> IF st = StoreOfGate(g)
                                      THEN [r \in {TheTicket} |-> Row(1, pax, ZeroMap, y)]
                                      ELSE [r \in {} |-> 0]] :
                    <<g, pax, y>> \in {x \in Gates \X [Gates -> 0..MaxPax] \X {0, 1} :
                                         x[2][x[1]] >= 1}}
  /\ scan_history = [st \in Stores |-> <<>>]
  /\ spc = [s \in Scanners |-> "idle"]
  /\ sloc = [s \in Scanners |-> IdleLoc]
  /\ decision = [s \in Scanners |-> NoDecision]
  /\ nScans = 0
  /\ fpc = "idle" /\ floc = IdleFetch /\ nFetch = 0
  /\ ppc = "idle" /\ ploc = IdlePush
  /\ admitted = [st \in Stores |-> [r \in Refs |-> ZeroMap]]
  /\ accepted = [r \in Refs |-> NoneAccepted]
  /\ mgr = NoManager
  /\ codec = NoCodec
  /\ cln = NoCleaner
  /\ frun = NoRun

SeqGate == CHOOSE g \in Gates : HasRow(StoreOfGate(g), TheTicket)

SeqScan ==
  /\ nScans < MaxSeqScans
  /\ \E qr \in TicketStrings(SeqGate), name \in GateNames(SeqGate) :
        ScanStart("s1", StoreOfGate(SeqGate), qr, name)

SeqLegacy ==
  /\ nScans < MaxSeqScans
  /\ \E name \in GateNames(SeqGate) :
        LegacyStart("s1", StoreOfGate(SeqGate), TheTicket, name)

NextSeq ==
  \/ SeqScan
  \/ ScanFinish("s1")
  \/ SeqLegacy
  \/ LegacyFinish("s1")

SpecSeq == InitSeq /\ [][NextSeq]_vars

(* add_ticket alone: a store that holds nothing or a row of the ticket in   *)
(* any state, one call with any reference and any record of the manifest,   *)
(* then calls with that same reference and record again                     *)
MaxUpserts == MaxFetch + 1
UpsertRecords ==
  {[bookingDate |-> d, pax |-> [g \in Gates |-> CASE g = "A" -> p[1] [] g = "B" -> p[2] [] OTHER -> 0],
    used |-> [g \in Gates |-> CASE g = "A" -> u[1] [] g = "B" -> u[2] [] OTHER -> 0]] :
     <<d, p, u>> \in Days \X ((0..MaxPax) \X (0..MaxPax)) \X ((0..MaxPax) \X (0..MaxPax))}

UpsertRows ==
  {[r \in {} |-> 0]} \cup
  {[r \in {TheTicket} |-> Row(rec.bookingDate, rec.pax, rec.used, y)] :
     rec \in UpsertRecords, y \in {0, 1}}

InitUpsert ==
  /\ today = 1
  /\ tickets \in {[st \in Stores |-> IF st \in ScanStores THEN rows ELSE [r \in {} |-> 0]] :
                    rows \in UpsertRows}
  /\ scan_history = [st \in Stores |-> <<>>]
  /\ spc = [s \in Scanners |-> "idle"]
  /\ sloc = [s \in Scanners |-> IdleLoc]
  /\ decision = [s \in Scanners |-> NoDecision]
  /\ nScans = 0
  /\ fpc = "idle" /\ floc = IdleFetch /\ nFetch = 0
  /\ ppc = "idle" /\ ploc = IdlePush
  /\ admitted = [st \in Stores |-> [r \in Refs |-> ZeroMap]]
  /\ accepted = [r \in Refs |-> NoneAccepted]
  /\ mgr = NoManager
  /\ codec = NoCodec
  /\ cln = NoCleaner
  /\ frun = NoRun

(* the first call of add_ticket on the store *)
Upsert(ticket_no, rec) ==
  /\ nFetch = 0
  /\ nFetch' = 1
  /\ floc' = [IdleFetch EXCEPT !.i = 1, !.ticket_no = ticket_no, !.rec = rec]
  /\ tickets' = [tickets EXCEPT ![attractions[1]] = add_ticket(@, ticket_no, rec)]
  /\ UNCHANGED <<today, mgr, frun, codec, cln, scan_history, scanVars, fpc, pushVars, admitted, accepted>>

(* add_ticket called again with the reference and the record of the last call *)
UpsertAgain ==
  /\ nFetch >= 1 /\ nFetch < MaxUpserts
  /\ nFetch' = nFetch + 1
  /\ tickets' = [tickets EXCEPT ![attractions[floc.i]] = add_ticket(@, floc.ticket_no, floc.rec)]
  /\ UNCHANGED <<today, mgr, frun, codec, cln, scan_history, scanVars, fpc, floc, pushVars, admitted, accepted>>

NextUpsert ==
  \/ \E ticket_no \in Refs, rec \in UpsertRecords : Upsert(ticket_no, rec)
  \/ UpsertAgain

SpecUpsert == InitUpsert /\ [][NextUpsert]_vars

(* the push worker alone over the three stores: each store holds nothing or *)
(* today's ticket with its own counts and sync flag, the first store may    *)
(* hold an unsynced dummy ticket and the last one a second unsynced ticket  *)
DummyTicket == <<1, 3, "dummy">>
OtherTicket == <<2, 3>>
MergeRows ==
  {Row(1, [g \in Gates |-> CASE g = "A" -> x[1] [] g = "B" -> 1 [] OTHER -> 0],
       [g \in Gates |-> CASE g = "A" -> x[2] [] g = "B" -> x[3] [] OTHER -> 0], x[4]) :
     x \in {1, MaxPax} \X (0..MaxPax) \X (0..1) \X {0, 1}}

MergeStore(st, rows, extra) ==
  LET held == (IF rows = {} THEN {} ELSE {TheTicket}) \cup
              (IF extra /\ st = attractions[1] THEN {DummyTicket} ELSE {}) \cup
              (IF extra /\ st = attractions[3] THEN {OtherTicket} ELSE {})
  IN [r \in held |-> IF r = TheTicket THEN CHOOSE row \in rows : TRUE
                     ELSE Row(r[1], [g \in Gates |-> 1], [g \in Gates |-> 1], 0)]

InitMerge ==
  /\ today = 1
  /\ tickets \in {[st \in Stores |-> MergeStore(st, rows[st], extra)] :
                    rows \in [Stores -> {{}} \cup {{row} : row \in MergeRows}],
                    extra \in BOOLEAN}
  /\ scan_history = [st \in Stores |-> <<>>]
  /\ spc = [s \in Scanners |-> "idle"]
  /\ sloc = [s \in Scanners |-> IdleLoc]
  /\ decision = [s \in Scanners |-> NoDecision]
  /\ nScans = 0
  /\ fpc = "idle" /\ floc = IdleFetch /\ nFetch = 0
  /\ ppc = "idle" /\ ploc = IdlePush
  /\ admitted = [st \in Stores |-> [r \in Refs |-> ZeroMap]]
  /\ accepted = [r \in Refs |-> NoneAccepted]
  /\ mgr = NoManager
  /\ codec = NoCodec
  /\ cln = NoCleaner
  /\ frun = NoRun

NextMerge ==
  \/ PushCycle
  \/ PushCollect
  \/ \E r \in Refs : PushPick(r)
  \/ PushRead
  \/ \E ok \in BOOLEAN : PushPost(ok)
  \/ PushMark

SpecMerge == InitMerge /\ [][NextMerge]_vars

(* the whole node on one day, starting where today's ticket is exhausted at *)
(* gate A of the scanning store                                              *)
ExhaustedRows ==
  {[r \in {<<1, 3>>} |->
      Row(1, [g \in Gates |-> CASE g = "A" -> a [] g = "B" -> 1 [] OTHER -> 0],
          [g \in Gates |-> IF g = "A" THEN a ELSE 0], y)] :
     <<a, y>> \in (1..MaxPax) \X {0, 1}}

InitDay ==
  /\ today = 1
  /\ tickets \in {[st \in Stores |-> IF st \in ScanStores THEN rows ELSE [r \in {} |-> 0]] :
                    rows \in ExhaustedRows}
  /\ scan_history = [st \in Stores |-> <<>>]
  /\ spc = [s \in Scanners |-> "idle"]
  /\ sloc = [s \in Scanners |-> IdleLoc]
  /\ decision = [s \in Scanners |-> NoDecision]
  /\ nScans = 0
  /\ fpc = "idle" /\ floc = IdleFetch /\ nFetch = 0
  /\ ppc = "idle" /\ ploc = IdlePush
  /\ admitted = [st \in Stores |-> [r \in Refs |-> ZeroMap]]
  /\ accepted = [r \in Refs |-> NoneAccepted]
  /\ mgr = NoManager
  /\ codec = NoCodec
  /\ cln = NoCleaner
  /\ frun = NoRun

SpecDay == InitDay /\ [][Next]_vars

(* the validator with scanner processes that can die inside a call *)
NextCrash ==
  \/ \E s \in Scanners, st \in ScanStores, qr \in QRCodes, name \in ScanNames :
        ScanBegin(s, st, qr, name)
  \/ \E s \in Scanners : ScanFinish(s)
  \/ \E s \in Scanners : ScanCrash(s)
SpecCrash == InitScan /\ [][NextCrash]_vars

(* the codec alone: every data of the bounded days, serials and gate maps,  *)
(* and every ticket string over them: each tag value in either letter case,  *)
(* tags with a character outside ASCII, and the structurally defective ones  *)
CodecData == [date : Days, serial : Serials, gate_info : QRGateInfos]
CodecTags == [hex : 0..(TagSpace - 1), upper : BOOLEAN, ascii : BOOLEAN]
CodecQR ==
  {GoodQR(d.date, d.serial, d.gate_info, t) : d \in CodecData, t \in CodecTags} \cup MalformedQR
NextCodec ==
  \/ \E ticket_data \in CodecData : GenerateThenVerify(ticket_data)
  \/ \E qr \in CodecQR : ParseQR(qr)
SpecCodec == Init /\ [][NextCodec]_vars

(* calls of log_scan on the stores of SpecScan, the write going through or  *)
(* not                                                                      *)
LogResults == {"SUCCESS", "FAILED"}
LogReasons == {ValidEntry, AllUsed}
NextLog ==
  \E s \in SpecScanners, st \in ScanStores, r \in Refs \cup {RawQR},
     result \in LogResults, reason \in LogReasons, written \in BOOLEAN :
       log_scan(s, st, r, result, reason, written)
SpecLog == InitScan /\ [][NextLog]_vars

(* the fetch worker alone, each attempt of its GET on its own, on a store   *)
(* that holds nothing or today's ticket with some entries used              *)
NextFetch ==
  \/ FetchGet
  \/ \E outcome \in FetchOutcomes : FetchAttempt(outcome)
  \/ \E r \in Refs, rec \in ServerRecords, wf \in BOOLEAN : FetchRecord(r, rec, wf)
  \/ FetchDone
  \/ AddTicketSelect
  \/ AddTicketUsed
  \/ AddTicketWrite

SpecFetch == InitScan /\ [][NextFetch]_vars

(* the cleanup worker alone, before and after midnight: the three stores    *)
(* hold the same rows to begin with, any of the two tickets with any        *)
(* booking date, used count at A and sync flag                              *)
CleanupRows ==
  {[r \in held |-> Row(f[r][1], [g \in Gates |-> 1], [g \in Gates |-> IF g = "A" THEN f[r][2] ELSE 0],
                       f[r][3])] :
     held \in SUBSET Refs, f \in [Refs -> Days \X {0, 1} \X {0, 1}]}

InitCleanup ==
  /\ today = 1
  /\ tickets \in {[st \in Stores |-> rows] : rows \in CleanupRows}
  /\ scan_history = [st \in Stores |-> <<>>]
  /\ spc = [s \in Scanners |-> "idle"]
  /\ sloc = [s \in Scanners |-> IdleLoc]
  /\ decision = [s \in Scanners |-> NoDecision]
  /\ nScans = 0
  /\ fpc = "idle" /\ floc = IdleFetch /\ nFetch = 0
  /\ ppc = "idle" /\ ploc = IdlePush
  /\ admitted = [st \in Stores |-> [r \in Refs |-> ZeroMap]]
  /\ accepted = [r \in Refs |-> NoneAccepted]
  /\ mgr = NoManager
  /\ codec = NoCodec
  /\ cln = NoCleaner
  /\ frun = NoRun

NextCleanup ==
  \/ \E st \in Stores : Cleanup(st)
  \/ Midnight

SpecCleanup == InitCleanup /\ [][NextCleanup]_vars

(* the cleanup worker step by step, started at any minute of the hour, on   *)
(* three stores that hold yesterday's-to-be ticket (any used count and sync *)
(* flag) and tomorrow's                                                     *)
CleanRows ==
  {[r \in Refs |-> Row(r[1], [g \in Gates |-> 1], [g \in Gates |-> IF g = "A" THEN u ELSE 0],
                       IF r[1] = 1 THEN y ELSE 0)] : <<u, y>> \in {0, 1} \X {0, 1}}

InitClean ==
  /\ today = 1
  /\ tickets \in {[st \in Stores |-> rows] : rows \in CleanRows}
  /\ scan_history = [st \in Stores |-> <<>>]
  /\ spc = [s \in Scanners |-> "idle"]
  /\ sloc = [s \in Scanners |-> IdleLoc]
  /\ decision = [s \in Scanners |-> NoDecision]
  /\ nScans = 0
  /\ fpc = "idle" /\ floc = IdleFetch /\ nFetch = 0
  /\ ppc = "idle" /\ ploc = IdlePush
  /\ admitted = [st \in Stores |-> [r \in Refs |-> ZeroMap]]
  /\ accepted = [r \in Refs |-> NoneAccepted]
  /\ mgr = NoManager
  /\ codec = NoCodec
  /\ cln \in {[NoCleaner EXCEPT !.minute = m] : m \in 0..(MinutesPerHour - 1)}
  /\ frun = NoRun

NextClean ==
  \/ CleanCheck
  \/ \E ok \in BOOLEAN : CleanBackup(ok)
  \/ \E ok \in BOOLEAN : CleanDelete(ok)
  \/ \E d \in 0..MaxCycle : CleanEnd(d)
  \/ \E o \in 0..MaxOversleep : CleanWait(o)
  \/ \E o \in 0..MaxOversleep : CleanSleep(o)
  \/ Midnight

SpecClean == InitClean /\ [][NextClean]_vars

(* the supervisor and its workers as processes: any of the three services   *)
(* enabled, workers that end on their own, termination signals at any time  *)
(* once the handlers are installed; the supervisor itself keeps running     *)
InitMgr ==
  /\ today = 1
  /\ tickets = [st \in Stores |-> [r \in {} |-> 0]]
  /\ scan_history = [st \in Stores |-> <<>>]
  /\ spc = [s \in Scanners |-> "idle"]
  /\ sloc = [s \in Scanners |-> IdleLoc]
  /\ decision = [s \in Scanners |-> NoDecision]
  /\ nScans = 0
  /\ fpc = "idle" /\ floc = IdleFetch /\ nFetch = 0
  /\ ppc = "idle" /\ ploc = IdlePush
  /\ admitted = [st \in Stores |-> [r \in Refs |-> ZeroMap]]
  /\ accepted = [r \in Refs |-> NoneAccepted]
  /\ mgr \in {[NoManager EXCEPT !.enabled = e] : e \in SUBSET ServiceNames}
  /\ codec = NoCodec
  /\ cln = NoCleaner
  /\ frun = NoRun

MgrStep ==
  \/ MgrInstall
  \/ MgrStartAll
  \/ MgrLoop
  \/ MgrSleep
  \/ MgrCheck
  \/ MgrRestart
  \/ MgrStop
  \/ MgrTerminate
  \/ \E exited \in BOOLEAN : MgrJoin(exited)
  \/ MgrKill
  \/ MgrClear

NextMgr ==
  \/ MgrStep
  \/ Signal
  \/ \E name \in ServiceNames : Crash(name)

SpecMgr == InitMgr /\ [][NextMgr]_vars /\ WF_vars(MgrStep)

(* ------------------------------ properties ---------------------------- *)
(* C1  Capacity cap: after any sequence of scans through validate_ticket or *)
(* validate_and_log_ticket, two of them running concurrently included, no   *)
(* ticket row has at any gate a stored used above its stored pax.           *)
CapacityCap ==
  \A st \in Stores : \A r \in DOMAIN tickets[st] : \A g \in Gates :
     tickets[st][r].used[g] <= tickets[st][r].pax[g]

(* scanner s has finished a call that read a free entry and was refused as  *)
(* exhausted: its conditional UPDATE changed no row                         *)
LostRace(s) ==
  /\ spc[s] = "idle"
  /\ sloc[s].found /\ sloc[s].used_db < sloc[s].pax_db
  /\ decision[s].reason = AllUsed

CapacityCapWitness ==
  \E s \in Scanners, t \in Scanners :
     /\ s # t
     /\ decision[s].valid
     /\ LostRace(t)
     /\ sloc[s].store = sloc[t].store /\ sloc[s].ref = sloc[t].ref /\ sloc[s].short = sloc[t].short
     /\ HasRow(sloc[t].store, sloc[t].ref)
     /\ tickets[sloc[t].store][sloc[t].ref].used[sloc[t].short]
          = tickets[sloc[t].store][sloc[t].ref].pax[sloc[t].short]

(* C2  Admission is single-shot: when the last calls of the two scanners    *)
(* both read the same row at the same gate with used = pax - 1 (the second  *)
(* read came before the first commit, so they ran concurrently) and both    *)
(* have returned, exactly one returned Valid Entry, the other returned 'QR  *)
(* already scanned - All entries used', and the row has used = pax.         *)
ReadLastEntry(s) ==
  /\ spc[s] = "idle"
  /\ decision[s].op # "none"
  /\ sloc[s].found
  /\ sloc[s].date_db = sloc[s].today_str \/ sloc[s].op = "legacy"
  /\ sloc[s].used_db = sloc[s].pax_db - 1

SameTarget(s, t) ==
  /\ sloc[s].store = sloc[t].store
  /\ sloc[s].ref = sloc[t].ref
  /\ sloc[s].short = sloc[t].short

SingleShot ==
  \A s \in Scanners, t \in Scanners :
     (s # t /\ ReadLastEntry(s) /\ ReadLastEntry(t) /\ SameTarget(s, t)) =>
        /\ decision[s].valid # decision[t].valid
        /\ decision[s].valid => decision[s].reason = ValidEntry /\ decision[t].reason = AllUsed
        /\ decision[t].valid => decision[t].reason = ValidEntry /\ decision[s].reason = AllUsed
        /\ HasRow(sloc[s].store, sloc[s].ref)
        /\ tickets[sloc[s].store][sloc[s].ref].used[sloc[s].short]
             = tickets[sloc[s].store][sloc[s].ref].pax[sloc[s].short]

SingleShotWitness ==
  \E s \in Scanners, t \in Scanners :
     /\ s # t /\ ReadLastEntry(s) /\ ReadLastEntry(t) /\ SameTarget(s, t)
     /\ sloc[s].op = "log" /\ sloc[t].op = "log"
     /\ decision[s].valid /\ decision[t].reason = AllUsed

(* C3  Monotone used: no step of a scan, of add_ticket or of                *)
(* mark_ticket_synced lowers the stored used of a row that exists before    *)
(* and after the step, at any gate.                                         *)
MonotoneUsed ==
  [][\A st \in Stores : \A r \in DOMAIN tickets[st] \cap DOMAIN tickets'[st] : \A g \in Gates :
       tickets'[st][r].used[g] >= tickets[st][r].used[g]]_vars

(* C4  Data-model invariant: whatever the stores have committed, every     *)
(* ticket row has 0 <= used <= pax at every gate.                           *)
UsedWithinPax ==
  \A st \in Stores : \A r \in DOMAIN tickets[st] : \A g \in Gates :
     /\ 0 <= tickets[st][r].used[g]
     /\ tickets[st][r].used[g] <= tickets[st][r].pax[g]

(* C5  No committed admission is erased from the counter: the stored used   *)
(* of a ticket at a gate is at least the number of Valid Entry decisions    *)
(* the store has returned for it at that gate.                              *)
UsedCountsAdmissions ==
  \A st \in Stores : \A r \in DOMAIN tickets[st] : \A g \in Gates :
     tickets[st][r].used[g] >= admitted[st][r][g]

(* C6  A row with is_synced = 1 has used counts that the last payload the   *)
(* central service accepted for its reference contains.                     *)
SyncedIsReported ==
  \A st \in Stores : \A r \in DOMAIN tickets[st] :
     tickets[st][r].is_synced = 1 =>
        /\ accepted[r].any
        /\ \A g \in Gates : tickets[st][r].used[g] <= accepted[r].used[g]

(* C7  Sync monotonicity: the used counts of a payload the central service  *)
(* accepts for a ticket are at no gate below those of the payload it        *)
(* accepted for that ticket before.                                         *)
PayloadsNeverRegress ==
  [][\A r \in Refs : \A g \in Gates :
       accepted[r].any => accepted'[r].used[g] >= accepted[r].used[g]]_vars

(* C8  Every local admission is eventually reported: with a central service *)
(* that accepts the POSTs and a push worker that keeps cycling, from some   *)
(* point on the payload accepted for a ticket holds at every gate at least  *)
(* the admissions committed for it in each store.                           *)
AllReported ==
  \A st \in Stores : \A r \in Refs : \A g \in Gates :
     admitted[st][r][g] > 0 =>
        accepted[r].any /\ accepted[r].used[g] >= admitted[st][r][g]

EventuallyReported == <>[]AllReported

(* C9  The validator never throws out of the call: no call of               *)
(* validate_and_log_ticket ends with an exception instead of a decision.    *)
NeverRaises ==
  \A s \in Scanners : decision[s].op = "log" => decision[s].reason # Raised

(* C10  History completeness: a call of validate_and_log_ticket that        *)
(* returns a decision appends exactly one scan_history row to its store;    *)
(* the row's result is SUCCESS iff the decision is valid and FAILED         *)
(* otherwise.  The row's reason equals the decision's reason in the         *)
(* attraction mismatch, exhausted, lost race and success branches; in the   *)
(* two date mismatch branches the row holds a 'Ticket date mismatch - ...'  *)
(* text and the decision 'Invalid date - Ticket not valid for today', in    *)
(* the parse/MAC failure branch the row holds the parser's error text and   *)
(* the decision 'Invalid QR - ' followed by that text.                      *)
LoggedCallReturns(s) ==
  /\ decision'[s].call # decision[s].call
  /\ decision'[s].op = "log"
  /\ decision'[s].reason # Raised

OneNewRow(s) ==
  LET st == decision'[s].store
  IN /\ Len(scan_history'[st]) = Len(scan_history[st]) + 1
     /\ SubSeq(scan_history'[st], 1, Len(scan_history[st])) = scan_history[st]
     /\ \A o \in Stores \ {st} : scan_history'[o] = scan_history[o]
     /\ scan_history'[st][Len(scan_history'[st])].result
          = IF decision'[s].valid THEN "SUCCESS" ELSE "FAILED"

NewRowReason(s) == scan_history'[decision'[s].store][Len(scan_history'[decision'[s].store])].reason

LoggedReasonFor(decided, logged) ==
  IF decided = InvalidDate THEN logged \in {DateMismatchLog, DbDateMismatchLog}
  ELSE IF Len(decided) = 2 /\ decided[1] = InvalidQR("")[1] THEN logged = <<decided[2]>>
  ELSE logged = decided

AdmitsOnlyVerified ==
  \A s \in Scanners :
     (spc[s] = "idle" /\ decision[s].valid) => sloc[s].verified

(* C12  Stale-day rescan: a call of validate_and_log_ticket with a string   *)
(* whose first part is eight digits of another day than today returns      *)
(* 'Invalid date - Ticket not valid for today' in its first step, whatever  *)
(* the rest of the string is (the codec is not asked) and without reading a *)
(* ticket row; the only change is one FAILED row in the store's history.    *)
StaleStrings == {q \in QRCodes : q.dateOK /\ q.date # today}

(* what every step that starts a call of scanner s does: the call is numbered *)
(* nScans + 1, and it either goes on or returns under that number            *)
StartsCall(s) ==
  /\ spc[s] = "idle"
  /\ nScans' = nScans + 1
  /\ spc'[s] # "idle" \/ decision'[s].call = nScans + 1

StaleDayRescan ==
  [][\A s \in Scanners : StartsCall(s) =>
        \A st \in ScanStores, qr \in StaleStrings, name \in ScanNames :
           ScanBegin(s, st, qr, name) =>
              /\ spc'[s] = "idle"
              /\ decision'[s].reason = InvalidDate /\ ~decision'[s].valid
              /\ sloc'[s] = IdleLoc
              /\ tickets' = tickets /\ admitted' = admitted
              /\ scan_history' = [scan_history EXCEPT ![st] =
                    Append(@, [ticket_no |-> RawQR, day |-> today, result |-> "FAILED",
                               reason |-> DateMismatchLog])]]_vars

StaleDayRescanWitness ==
  \E s \in Scanners :
     /\ spc[s] = "idle" /\ decision[s].op = "log" /\ decision[s].reason = InvalidDate
     /\ sloc[s] = IdleLoc
     /\ HasRow(decision[s].store, <<1, 3>>)
     /\ Len(scan_history[decision[s].store]) > 0
     /\ scan_history[decision[s].store][Len(scan_history[decision[s].store])].reason
          = DateMismatchLog

(* C13  A call that read today's row of the ticket with a stored pax of 0   *)
(* at its gate is answered 'Attraction mismatch - Ticket not valid for G',  *)
(* whatever count the scanned string carries for the gate.                  *)
ZeroPaxIsMismatch ==
  \A s \in Scanners :
     (/\ spc[s] = "idle" /\ decision[s].call = sloc[s].call /\ decision[s].reason # Raised
      /\ sloc[s].found /\ sloc[s].pax_db = 0
      /\ sloc[s].op = "log" => sloc[s].date_db = sloc[s].today_str) =>
        /\ ~decision[s].valid
        /\ decision[s].reason = AttractionMismatch(sloc[s].short)

(* C14  Wrong gate: a call of validate_and_log_ticket with a MAC-valid      *)
(* string of today and a gate name that the gate mapping does not hold      *)
(* returns 'Attraction mismatch - Ticket not valid for <gate>' and changes  *)
(* no ticket row.                                                           *)
UnmappedNames == {n \in ScanNames : attraction_short(n) \notin DOMAIN gate_mapping}

ValidTodayStrings == {q \in QRCodes : parse_qr_code(q).valid /\ q.date = today}

UnmappedGateIsMismatch ==
  [][\A s \in Scanners : StartsCall(s) =>
        \A st \in ScanStores, qr \in ValidTodayStrings, name \in UnmappedNames :
           ScanBegin(s, st, qr, name) =>
              /\ spc'[s] = "idle"
              /\ ~decision'[s].valid
              /\ decision'[s].reason = AttractionMismatch(attraction_short(name))
              /\ tickets' = tickets]_vars

BirthCallEnds(s) ==
  /\ spc[s] = "update" /\ spc'[s] = "idle"
  /\ sloc[s].op = "log" /\ sloc[s].verified /\ ~sloc[s].found

OfflineBirthAdmits ==
  [][\A s \in Scanners : BirthCallEnds(s) =>
        LET st == sloc[s].store
            r == sloc[s].ref
            g == sloc[s].short
        IN /\ decision'[s].valid /\ decision'[s].reason = ValidEntry
           /\ decision'[s].persons_entered = 1
           /\ r \notin DOMAIN tickets[st]
           /\ DOMAIN tickets'[st] = DOMAIN tickets[st] \cup {r}
           /\ \A o \in DOMAIN tickets[st] : tickets'[st][o] = tickets[st][o]
           /\ tickets'[st][r] =
                Row(r[1], [x \in Gates |-> sloc[s].gate_info[gate_mapping[x]]],
                    [x \in Gates |-> IF x = g THEN 1 ELSE 0], 0)
           /\ OneNewRow(s)]_vars

(* C17  Exhaustion boundary: on a ticket with pax[G] = n >= 1 and           *)
(* used[G] = 0, scanned at G by one process with no other writer, the k-th  *)
(* scan returns Valid Entry with persons_entered = k and leaves used[G] = k *)
(* for k = 1..n; the (n+1)-th scan and every later one returns              *)
(* 'QR already scanned - All entries used' and leaves used[G] = n.          *)
ExhaustionBoundary ==
  spc["s1"] = "idle" =>
     LET g == SeqGate
         row == tickets[StoreOfGate(g)][TheTicket]
         n == row.pax[g]
         k == nScans
     IN /\ row.used[g] = IF k <= n THEN k ELSE n
        /\ (k >= 1 /\ k <= n) =>
              /\ decision["s1"].valid /\ decision["s1"].reason = ValidEntry
              /\ decision["s1"].persons_entered = k
        /\ k > n =>
              /\ ~decision["s1"].valid /\ decision["s1"].reason = AllUsed
              /\ decision["s1"].persons_entered = n

(* the scan after the last place of a ticket of the largest capacity *)
ExhaustionBoundaryWitness ==
  /\ spc["s1"] = "idle" /\ nScans = MaxPax + 1
  /\ decision["s1"].reason = AllUsed
  /\ tickets[StoreOfGate(SeqGate)][TheTicket].pax[SeqGate] = MaxPax
  /\ tickets[StoreOfGate(SeqGate)][TheTicket].used[SeqGate] = MaxPax

(* C18  A server upsert never touches the sync flag of an existing row: the *)
(* write of add_ticket leaves is_synced of every row that was in the store  *)
(* as it was, whatever the server record holds, and deletes no row; a row   *)
(* it inserts has is_synced = 0.                                            *)
UpsertWrites == fpc = "write" /\ fpc' # "write"

UpsertKeepsSyncFlag ==
  [][UpsertWrites =>
        \A st \in Stores :
           /\ DOMAIN tickets[st] \subseteq DOMAIN tickets'[st]
           /\ \A r \in DOMAIN tickets'[st] :
                 tickets'[st][r].is_synced = IF HasRow(st, r) THEN tickets[st][r].is_synced ELSE 0]_vars

(* the upsert has raised the used count of a row born of a scan, whose      *)
(* admission is still pending                                               *)
UpsertKeepsSyncFlagWitness ==
  /\ fpc = "select" /\ floc.i = 2
  /\ HasRow("AttractionA", floc.ticket_no)
  /\ admitted["AttractionA"][floc.ticket_no]["A"] = 1
  /\ floc.rec.used["A"] = 2
  /\ tickets["AttractionA"][floc.ticket_no].used["A"] = 2
  /\ tickets["AttractionA"][floc.ticket_no].is_synced = 0

(* C19  The upsert from the server is idempotent: after add_ticket with a   *)
(* record, the row has pax[G] = server pax[G] and used[G] = the larger of   *)
(* the previous local used[G] and the server used[G] for every gate G (the  *)
(* server used[G] when there was no row), and add_ticket with the same      *)
(* record again leaves the store identical.                                 *)
UpsertIdempotent ==
  [][nFetch' = nFetch + 1 =>
        LET st == attractions[floc'.i]
            r == floc'.ticket_no
            rec == floc'.rec
        IN /\ r \in DOMAIN tickets'[st]
           /\ tickets'[st][r].pax = rec.pax
           /\ tickets'[st][r].used =
                [g \in Gates |-> IF HasRow(st, r) THEN Max(tickets[st][r].used[g], rec.used[g])
                                                 ELSE rec.used[g]]
           /\ add_ticket(tickets'[st], r, rec) = tickets'[st]
           /\ nFetch >= 1 => tickets' = tickets]_vars

(* the same record has been applied twice to a row whose local count at A   *)
(* was above the server's and whose count at B was below it                 *)
UpsertIdempotentWitness ==
  /\ nFetch = 2
  /\ HasRow(attractions[floc.i], floc.ticket_no)
  /\ tickets[attractions[floc.i]][floc.ticket_no].used["A"] > floc.rec.used["A"]
  /\ tickets[attractions[floc.i]][floc.ticket_no].used["B"] = floc.rec.used["B"]
  /\ floc.rec.used["B"] >= 1
  /\ tickets[attractions[floc.i]][floc.ticket_no].pax = floc.rec.pax
  /\ tickets[attractions[floc.i]][floc.ticket_no].is_synced = 1

(* C20  Push merge: the payload POSTed for a reference carries, for each    *)
(* gate G, used[G] = the maximum of used[G] and pax[G] = the maximum of     *)
(* pax[G] over the co-located stores that hold the reference; the payloads  *)
(* of a cycle are one per reference that is unsynced in at least one store  *)
(* and is no dummy ticket, and a cycle with no payload finds no such        *)
(* reference.                                                               *)
Holders(r) == {st \in Stores : HasRow(st, r)}
SetMax(S) == CHOOSE x \in S : \A y \in S : y <= x
PendingRefs ==
  {r \in UNION {DOMAIN tickets[st] : st \in Stores} :
     /\ \E st \in Holders(r) : tickets[st][r].is_synced = 0
     /\ ~IsDummy(r)}

PushMergeIsMax ==
  [][/\ ppc = "post" =>
          LET r == Head(ploc.merged)[1]
              payload == Head(ploc.merged)[2]
          IN /\ Holders(r) # {}
             /\ \A g \in Gates :
                   /\ payload.used[g] = SetMax({tickets[st][r].used[g] : st \in Holders(r)})
                   /\ payload.pax[g] = SetMax({tickets[st][r].pax[g] : st \in Holders(r)})
     /\ (ppc = "read" /\ ppc' = "post") =>
          /\ {ploc'.merged[k][1] : k \in 1..Len(ploc'.merged)} = PendingRefs
          /\ Len(ploc'.merged) = Cardinality(PendingRefs)
     /\ (ppc \in {"collect", "read"} /\ ppc' = "idle") => PendingRefs = {}]_vars

(* a payload is about to be POSTed whose used count at A comes from the     *)
(* first store and whose used count at B comes from the second, the ticket  *)
(* being synced in the first store, while a dummy ticket waits unsynced     *)
PushMergeIsMaxWitness ==
  /\ ppc = "post" /\ Head(ploc.merged)[1] = TheTicket
  /\ Holders(TheTicket) = Stores
  /\ tickets[attractions[1]][TheTicket].used["A"] > tickets[attractions[2]][TheTicket].used["A"]
  /\ tickets[attractions[2]][TheTicket].used["B"] > tickets[attractions[1]][TheTicket].used["B"]
  /\ tickets[attractions[1]][TheTicket].pax["A"] < tickets[attractions[3]][TheTicket].pax["A"]
  /\ tickets[attractions[1]][TheTicket].is_synced = 1
  /\ HasRow(attractions[1], DummyTicket) /\ tickets[attractions[1]][DummyTicket].is_synced = 0
  /\ Head(ploc.merged)[2].used["A"] = tickets[attractions[1]][TheTicket].used["A"]
  /\ Head(ploc.merged)[2].used["B"] = tickets[attractions[2]][TheTicket].used["B"]

(* C21  The push worker sets is_synced to 1 for a reference only after the  *)
(* POST of that reference's merged payload succeeded in the same cycle, and *)
(* then in each store of its list that holds the reference; a POST step,    *)
(* failed or not, changes no ticket; no step of the push worker changes     *)
(* pax or used or the set of rows of any store.                             *)
PushActs == <<ppc, ploc>>' # <<ppc, ploc>>

FetchActs == <<fpc, floc, nFetch>>' # <<fpc, floc, nFetch>>

FetchSeedsToday ==
  [][/\ fpc' \in {"select", "used", "write"} => floc'.rec.bookingDate = floc'.today
     /\ FetchActs =>
          /\ fpc # "write" => tickets' = tickets
          /\ fpc = "write" =>
                \A st \in Stores :
                   /\ DOMAIN tickets[st] \subseteq DOMAIN tickets'[st]
                   /\ \A r \in DOMAIN tickets'[st] :
                         IF HasRow(st, r) /\ tickets'[st][r] = tickets[st][r]
                         THEN TRUE
                         ELSE /\ st = attractions[floc.i] /\ r = floc.ticket_no
                              /\ tickets'[st][r].booking_date = floc.today]_vars

(* the fetch worker has created today's ticket in the first store *)
FetchSeedsTodayWitness ==
  /\ fpc = "select" /\ floc.i = 2 /\ nFetch = 1
  /\ HasRow(attractions[1], floc.ticket_no)
  /\ admitted[attractions[1]][floc.ticket_no] = ZeroMap
  /\ tickets[attractions[1]][floc.ticket_no].booking_date = today
  /\ tickets[attractions[1]][floc.ticket_no].pax = floc.rec.pax

(* C23  A failed fetch never poisons the store: while the fetch worker is   *)
(* retrieving the manifest no store changes, whatever the attempts return;  *)
(* when every attempt failed, or the response was not JSON, or the manifest *)
(* was empty, the cycle ends there, with no row deleted or changed, and the *)
(* worker is back where its next cycle starts.                              *)
FailedFetchKeepsStore ==
  [][(FetchActs /\ fpc \in {"idle", "get"}) =>
        /\ tickets' = tickets
        /\ (fpc = "get" /\ fpc' # "record") =>
              \/ fpc' = "get" /\ floc'.i = floc.i + 1 /\ floc'.i < retry_attempts
              \/ fpc' = "idle"]_vars

(* every attempt failed, and the store still holds its synced ticket with   *)
(* its used entries                                                         *)
FailedFetchKeepsStoreWitness ==
  /\ fpc = "idle" /\ floc.i = retry_attempts
  /\ HasRow(attractions[1], TheTicket)
  /\ tickets[attractions[1]][TheTicket].used["A"] >= 1
  /\ tickets[attractions[1]][TheTicket].is_synced = 1

RestartStep == mgr.pc = "restart" /\ mgr'.i # mgr.i

WorkerRestart ==
  /\ [][RestartStep =>
          LET name == Services[mgr.i]
          IN (name \in mgr.processes /\ mgr.proc[name].state = "dead") =>
                /\ mgr'.proc[name].state = "alive"
                /\ mgr'.proc[name].gen = mgr.proc[name].gen + 1
                /\ mgr'.processes = mgr.processes]_vars
  /\ [][(mgr.pc \in {"check", "restart"} /\ mgr'.pc = "loop" /\ mgr'.crashes = mgr'.at_check) =>
          /\ mgr'.processes = mgr'.enabled
          /\ \A n \in mgr'.processes : mgr'.proc[n].state = "alive"]_vars
  /\ \A n \in ServiceNames :
        (n \in mgr.processes /\ mgr.proc[n].state = "dead" /\ ~mgr.requested)
           ~> (mgr.proc[n].state = "alive" \/ mgr.requested)

(* two workers have been replaced, one of them twice over, with no signal *)
WorkerRestartWitness ==
  /\ mgr.pc = "loop" /\ mgr.running /\ ~mgr.requested
  /\ mgr.proc["sync"].gen = 2 /\ mgr.proc["cleanup"].gen = 2
  /\ \A n \in mgr.processes : mgr.proc[n].state = "alive"
  /\ mgr.processes = ServiceNames

(* C26: orderly shutdown terminates. After a termination signal is handled  *)
(* the supervisor eventually leaves its monitoring loop and                  *)
(* stop_all_services returns; a worker is killed only after it was asked to  *)
(* terminate and the wait ran out; and when stop_all_services has returned   *)
(* no worker process is alive and the process table is empty.                *)
StopReturned == mgr.pc = "done"
ShutdownTerminates ==
  /\ mgr.requested ~> StopReturned
  /\ [](\A n \in ServiceNames : mgr.proc[n].killed => mgr.proc[n].asked)
  /\ [](StopReturned => /\ mgr.processes = {}
                        /\ \A n \in ServiceNames : mgr.proc[n].state # "alive")

(* the parts of C26 that do hold: a signal handled once start_all_services  *)
(* has set running is followed by the return of stop_all_services            *)
SignalInLoopTerminates ==
  /\ (mgr.requested /\ ~mgr.running /\ mgr.pc # "start") ~> StopReturned
  /\ [](\A n \in ServiceNames : mgr.proc[n].killed => mgr.proc[n].asked)
  /\ [](StopReturned => /\ mgr.processes = {}
                        /\ \A n \in ServiceNames : mgr.proc[n].state # "alive")


(* C27: log_scan never fails its caller. Every call of log_scan returns     *)
(* normally, also when the write to scan_history fails, and leaves the      *)
(* tickets table unchanged.                                                 *)
LogScanCall == nScans' = nScans + 1 /\ \E s \in Scanners : decision'[s].op = "log_scan" /\ decision'[s].call = nScans'
LogScanNeverFails ==
  [][LogScanCall =>
       /\ \A s \in Scanners : (decision'[s].op = "log_scan" /\ decision'[s].call = nScans')
                                   => decision'[s].reason # Raised
       /\ tickets' = tickets]_vars

(* the part of C27 that does hold: no call of log_scan changes the tickets  *)
(* table, and a call whose write failed leaves scan_history as it was       *)
LogScanKeepsTickets ==
  [][LogScanCall =>
       /\ tickets' = tickets
       /\ \A s \in Scanners : (decision'[s].op = "log_scan" /\ decision'[s].call = nScans'
                                 /\ decision'[s].reason = Raised) => scan_history' = scan_history]_vars


(* C28: MAC round trip and closure. A code made by                          *)
(* generate_verification_code for a data is verified for that data, and for *)
(* every ticket string that parses structurally parse_qr_code returns valid *)
(* true exactly when generate_verification_code of its DATE-SERIAL-GATES    *)
(* equals its upper-cased tag.                                              *)
MacRoundTripAndClosure ==
  /\ codec.op = "verify" => (~codec.raised /\ codec.valid)
  /\ (codec.op = "parse" /\ StructurallyParses(codec.qr)) =>
        /\ ~codec.raised
        /\ codec.valid <=> (generate_verification_code(TicketData(codec.qr)) = Upper(codec.qr.tag))

(* the part of C28 that does hold: the round trip, and the closure for the  *)
(* strings whose upper-cased tag is ASCII                                   *)
MacClosureAscii ==
  /\ codec.op = "verify" => (~codec.raised /\ codec.valid)
  /\ (codec.op = "parse" /\ StructurallyParses(codec.qr) /\ codec.qr.tag.ascii) =>
        /\ ~codec.raised
        /\ codec.valid <=> (generate_verification_code(TicketData(codec.qr)) = Upper(codec.qr.tag))
MacClosureAsciiWitness ==
  /\ codec.op = "parse" /\ StructurallyParses(codec.qr) /\ codec.valid /\ ~codec.qr.tag.upper


(* C29: serialized admissions. For one ticket at one gate the used_after    *)
(* (persons_entered) values returned by the successful scans, in commit     *)
(* order, are 1, 2, ..., pax with no value repeated, also when the scans    *)
(* overlap: each committed admission returns the count its own UPDATE left  *)
(* in the row, which is one more than the previous admission returned.      *)
AdmissionCommits(s) ==
  /\ spc[s] = "update" /\ sloc[s].op = "log" /\ spc'[s] = "idle"
  /\ decision'[s].valid
SerializedAdmissions ==
  [][\A s \in Scanners : AdmissionCommits(s) =>
        LET l == sloc[s]
        IN decision'[s].persons_entered = tickets'[l.store][l.ref].used[l.short]]_vars


(* C30: stored capacity is authoritative. When the ticket is known locally  *)
(* and the stored pax of the gate differs from the count the scanned string *)
(* encodes for the gate, whatever the encoded count is, 0 included, the     *)
(* decision is taken from the stored values alone: the call goes on to the  *)
(* row, the scan is admitted exactly when stored used < stored pax, and the *)
(* returned persons_allowed is the stored pax.                              *)
MappedNames == ScanNames \ UnmappedNames
EncodedFor(qr, name) == qr.gate_info[gate_code(attraction_short(name))]
KnownWithOtherPax(st, qr, name) ==
  LET r == reference_no(qr.date, qr.serial)
  IN /\ HasRow(st, r)
     /\ tickets[st][r].booking_date = today
     /\ tickets[st][r].pax[attraction_short(name)] # EncodedFor(qr, name)
DecidedOnStoredValues(s) ==
  (/\ spc[s] = "update" /\ sloc[s].op = "log" /\ spc'[s] = "idle"
   /\ sloc[s].found /\ sloc[s].pax_db # sloc[s].persons_allowed
   /\ sloc[s].date_db = sloc[s].today_str) =>
     LET row == tickets[sloc[s].store][sloc[s].ref]
         g == sloc[s].short
     IN /\ decision'[s].valid <=> (row.used[g] < row.pax[g])
        /\ decision'[s].persons_allowed = row.pax[g]
StoredCapacityFor(Counts) ==
  \A s \in Scanners :
     /\ StartsCall(s) =>
          \A st \in ScanStores, name \in MappedNames, qr \in ValidTodayStrings :
               (/\ EncodedFor(qr, name) \in Counts
                /\ KnownWithOtherPax(st, qr, name)
                /\ ScanBegin(s, st, qr, name)) =>
                  /\ spc'[s] = "update"
                  /\ sloc'[s].found
                  /\ sloc'[s].pax_db = tickets[st][reference_no(qr.date, qr.serial)].pax[attraction_short(name)]
     /\ DecidedOnStoredValues(s)
StoredCapacityAuthoritative == [][StoredCapacityFor(0..MaxPax)]_vars

(* the part of C30 that does hold: the same for every encoded count but 0  *)
StoredCapacityNonzero == [][StoredCapacityFor(1..MaxPax)]_vars
StoredCapacityNonzeroWitness ==
  \E s \in Scanners :
     /\ spc[s] = "idle" /\ decision[s].call = sloc[s].call /\ decision[s].valid
     /\ sloc[s].op = "log" /\ sloc[s].found /\ sloc[s].pax_db > sloc[s].persons_allowed
     /\ decision[s].persons_allowed = sloc[s].pax_db


(* the row of ticket r is exhausted at gate g of store st *)
Exhausted(st, r, g) ==
  HasRow(st, r) /\ tickets[st][r].pax[g] > 0 /\ tickets[st][r].used[g] = tickets[st][r].pax[g]

(* C31: exhausted is terminal for the day. Once the row of a ticket has      *)
(* reached used[G] = pax[G] > 0 at gate G, no later scan of the ticket at G  *)
(* on the same day is admitted, whatever fetch upserts, push cycles and      *)
(* scans at other gates happen in between. Every behaviour of SpecDay starts *)
(* with the row of ticket <<1, 3>> exhausted at gate A of the scanning store *)
(* (InitDay) and with no admission counted, so there the claim says that no  *)
(* scan of the ticket at gate A is ever admitted.                            *)
ExhaustedIsTerminal ==
  \A st \in ScanStores : admitted[st][<<1, 3>>]["A"] = 0


(* C32: history follows the commit. For one admission the scan_history row   *)
(* is written in a step that comes after the commit of the used[G]           *)
(* increment, so that a crash between the two leaves the increment durable   *)
(* and loses at most the history row; and there is no state with a durable   *)
(* SUCCESS history row whose increment was lost.                             *)
UsedTotal(tk) ==
  LET n(st) == IF HasRow(st, <<1, 3>>)
               THEN tk[st][<<1, 3>>].used["A"] + tk[st][<<1, 3>>].used["B"] + tk[st][<<1, 3>>].used["C"]
               ELSE 0
  IN n("AttractionA") + n("AttractionB") + n("AttractionC")
SuccessRows(h) ==
  Cardinality({<<st, k>> \in Stores \X (1..MaxScans) :
                  k <= Len(h[st]) /\ h[st][k].result = "SUCCESS"})
IncrementCommits == tickets' # tickets /\ \E s \in Scanners : AdmissionCommits(s)
BackupPrecedesDeletion ==
  [][/\ \A st \in Stores :
          (tickets'[st] # tickets[st] \/ scan_history'[st] # scan_history[st]) =>
             /\ cln.pc = "delete" /\ st = attractions[cln.i] /\ st \in cln.backed
     /\ \A st \in Stores :
          (st \in cln'.backed /\ st \notin cln.backed) =>
             /\ cln.pc = "backup" /\ st = attractions[cln.i] /\ cln'.pc = "delete"
     /\ (cln' # cln /\ cln.pc = "backup" /\ cln'.pc # "delete") =>
             /\ attractions[cln.i] \notin cln'.backed
             /\ tickets' = tickets
     /\ (cln' # cln /\ cln.pc \in {"backup", "delete"} /\ cln'.pc # "delete"
         /\ cln.i < Len(attractions)) =>
             /\ cln'.pc = "backup" /\ cln'.i = cln.i + 1
     /\ (cln' # cln /\ cln'.pc = "end") =>
             /\ cln.pc \in {"backup", "delete"} /\ cln.i = Len(attractions)]_vars

(* the backup of the first store failed and its old row is still there; the *)
(* second store was backed up and its old row deleted; the cycle is at the   *)
(* third store                                                               *)
BackupPrecedesDeletionWitness ==
  /\ today = 2 /\ cln.pc = "backup" /\ cln.i = 3
  /\ cln.backed = {attractions[2]}
  /\ HasRow(attractions[1], <<1, 3>>) /\ ~HasRow(attractions[2], <<1, 3>>)

(* C34: cleanup fires at most once per hour window. After a cleanup cycle   *)
(* has run the worker starts no other cycle inside the trigger window       *)
(* (minute 0 to 5) of the same hour, whatever the minute of the first       *)
(* trigger and the duration of the cycle, a cycle that ended with an error  *)
(* included.                                                                *)
CleanupOncePerWindow == cln.fired <= 1

(* a cycle in which a store failed is over and the worker is checking again *)
(* in the same hour                                                        *)
CleanupOncePerWindowWitness ==
  /\ cln.fired = 1 /\ cln.pc = "check" /\ cln.backed # Stores
  /\ cln.minute = window_last_minute + sleep_after_cycle + check_interval

(* ------------------- FetchService.run, cycle after cycle -------------- *)
(* The loop of run around run_fetch_cycle, its times in seconds. frun.pc is *)
(* "loop" at the top of the loop, "cycle" inside run_fetch_cycle and        *)
(* "sleep" in the time.sleep that ends the iteration; frun.retrieved says   *)
(* whether the GET of the cycle gave a manifest.                            *)
MaxFailures == 6
fetch_interval == 300
max_consecutive_failures == 5
failure_wait == 60
max_wait == 300
Min(a, b) == IF a <= b THEN a ELSE b

(* run: run_fetch_cycle is called *)
FetchRunStart ==
  /\ frun.pc = "loop"
  /\ fpc = "idle"
  /\ fpc' = "get"
  /\ floc' = IdleFetch
  /\ frun' = [frun EXCEPT !.pc = "cycle", !.retrieved = FALSE]
  /\ UNCHANGED <<today, mgr, codec, cln, tickets, scan_history, scanVars, nFetch, pushVars,
                 admitted, accepted>>

(* run_fetch_cycle: one attempt of the GET of this cycle *)
FetchRunAttempt(outcome) ==
  /\ frun.pc = "cycle"
  /\ fpc = "get"
  /\ fetch_tickets_from_server(outcome)
  /\ frun' = [frun EXCEPT !.retrieved = outcome \in {"manifest", "empty"}]
  /\ UNCHANGED <<today, mgr, codec, cln, tickets, scan_history, scanVars, nFetch, pushVars,
                 admitted, accepted>>

(* the wait of the except branch of run after n failures in a row *)
WaitAfter(n) ==
  IF n >= max_consecutive_failures THEN Min(max_wait, failure_wait * n) ELSE failure_wait

(* run: run_fetch_cycle has returned, with a manifest or with the warning   *)
(* "No tickets fetched"; consecutive_failures = 0 and the sleep of          *)
(* fetch_interval follow                                                    *)
FetchRunReturn ==
  /\ frun.pc = "cycle"
  /\ fpc = "idle"
  /\ frun' = [frun EXCEPT !.pc = "sleep", !.consecutive_failures = 0,
                          !.wait_time = fetch_interval]
  /\ UNCHANGED <<today, mgr, codec, cln, tickets, scan_history, scanVars, fetchVars, pushVars,
                 admitted, accepted>>

(* run: an exception leaves run_fetch_cycle (config.get_fetch_url and the   *)
(* logging calls stand outside every try of the cycle); the except branch   *)
(* counts it and chooses the wait                                           *)
FetchRunRaise ==
  /\ frun.pc = "cycle"
  /\ fpc \in {"get", "record"}
  /\ frun.consecutive_failures < MaxFailures
  /\ fpc' = "idle"
  /\ floc' = IdleFetch
  /\ frun' = [frun EXCEPT !.pc = "sleep", !.consecutive_failures = @ + 1,
                          !.wait_time = WaitAfter(frun.consecutive_failures + 1)]
  /\ UNCHANGED <<today, mgr, codec, cln, tickets, scan_history, scanVars, nFetch, pushVars,
                 admitted, accepted>>

(* run: the time.sleep is over *)
FetchRunSleep ==
  /\ frun.pc = "sleep"
  /\ frun' = [frun EXCEPT !.pc = "loop"]
  /\ UNCHANGED <<today, mgr, codec, cln, tickets, scan_history, scanVars, fetchVars, pushVars,
                 admitted, accepted>>

NextRun ==
  \/ FetchRunStart
  \/ \E outcome \in FetchOutcomes : FetchRunAttempt(outcome)
  \/ \E r \in Refs, rec \in ServerRecords, wf \in BOOLEAN : FetchRecord(r, rec, wf)
  \/ FetchDone
  \/ AddTicketSelect
  \/ AddTicketUsed
  \/ AddTicketWrite
  \/ FetchRunReturn
  \/ FetchRunRaise
  \/ FetchRunSleep

SpecRun == InitScan /\ [][NextRun]_vars

(* the iteration of run that ends in this step *)
CycleEnds == frun.pc = "cycle" /\ frun'.pc = "sleep"
CycleReturns == CycleEnds /\ fpc = "idle"

(* C35: the failure counter goes up by one with every cycle that did not    *)
(* retrieve the manifest and back to 0 with a cycle that did; the sleep     *)
(* that follows is the fetch interval after a success and grows linearly    *)
(* with the counter after a failure, never beyond 300 s                     *)
FetchBackoff ==
  [][CycleEnds =>
       /\ CycleReturns /\ ~frun.retrieved =>
             frun'.consecutive_failures = frun.consecutive_failures + 1
       /\ CycleReturns /\ frun.retrieved => frun'.consecutive_failures = 0
       /\ frun'.consecutive_failures > 0 =>
             frun'.wait_time = Min(max_wait, failure_wait * frun'.consecutive_failures)
       /\ frun'.wait_time <= max_wait]_vars

(* what run does: every cycle that returns, with or without a manifest,     *)
(* resets the counter; only an exception counts; the wait is 60 s below     *)
(* five failures in a row and 300 s from five on                            *)
FetchBackoffAsCoded ==
  [][CycleEnds =>
       /\ CycleReturns => frun'.consecutive_failures = 0 /\ frun'.wait_time = fetch_interval
       /\ ~CycleReturns => frun'.consecutive_failures = frun.consecutive_failures + 1
       /\ frun'.consecutive_failures \in 1..(max_consecutive_failures - 1) =>
             frun'.wait_time = failure_wait
       /\ frun'.consecutive_failures >= max_consecutive_failures => frun'.wait_time = max_wait
       /\ frun'.wait_time <= max_wait]_vars

(* a cycle whose GET failed has returned and the worker sleeps *)
FailedCycleSlept ==
  frun.pc = "sleep" /\ ~frun.retrieved /\ frun.consecutive_failures = 0 /\ floc.i = retry_attempts

(* --------------------- parse_qr_code, string by string ---------------- *)
(* The strings handed to parse_qr_code: three to five '-' parts, a date and *)
(* a serial that are digits or not, and a gates part that is not a multiple *)
(* of 4 long, or empty, or made of GGPP groups whose halves are decimal     *)
(* digits or not (a passenger half that is not may still be one int()       *)
(* accepts); the tag verifies, or is corrupted, or has a character outside  *)
(* ASCII                                                                    *)
GateShapes ==
  {[gatesLen4 |-> l, gatesEmpty |-> e, codesOK |-> c, paxDigits |-> d, paxOK |-> o] :
     l \in BOOLEAN, e \in BOOLEAN, c \in BOOLEAN, d \in BOOLEAN, o \in BOOLEAN}
RealGateShapes ==
  {sh \in GateShapes : /\ sh.paxDigits => sh.paxOK
                       /\ sh.gatesEmpty => sh.gatesLen4 /\ sh.codesOK /\ sh.paxDigits}
ParseTags(g) ==
  LET t == generate_verification_code([date |-> 1, serial |-> 3, gate_info |-> g])
  IN {t, [t EXCEPT !.hex = (t.hex + 1) % TagSpace], [t EXCEPT !.ascii = FALSE]}
ParseGateInfo(sh, g) == IF sh.gatesEmpty \/ ~sh.paxOK THEN NoGateInfo ELSE g
ParseInputs ==
  LET g1 == [c \in GateCodes |-> IF c = "01" THEN 1 ELSE 0]
  IN UNION {{[GoodQR(1, 3, ParseGateInfo(sh, g), t)
                EXCEPT !.parts = n, !.dateOK = dk, !.serialOK = sk, !.gatesLen4 = sh.gatesLen4,
                       !.gatesEmpty = sh.gatesEmpty, !.codesOK = sh.codesOK,
                       !.paxDigits = sh.paxDigits, !.paxOK = sh.paxOK] :
               n \in 3..5, dk \in BOOLEAN, sk \in BOOLEAN, t \in ParseTags(ParseGateInfo(sh, g))} :
            sh \in RealGateShapes, g \in {g1, NoGateInfo}}
NextParse == \E qr \in ParseInputs : ParseQR(qr)
SpecParse == Init /\ [][NextParse]_vars

StructuralErrors ==
  {"Invalid QR format - not enough parts", "Invalid date format", "Invalid serial format",
   "Invalid gates format", "Invalid passenger count in gates"}
(* the four conditions of the claim on the parts of the string *)
WellStructured(qr) ==
  /\ qr.parts >= 4 /\ qr.dateOK /\ qr.serialOK
  /\ qr.gatesLen4 /\ ~qr.gatesEmpty /\ qr.codesOK /\ qr.paxDigits
(* parse_qr_code called verify_verification_code *)
ReachesMac(qr) == parse_qr_code_raises(qr) \/ parse_qr_code(qr).error \notin StructuralErrors

(* C36: parse_qr_code gets as far as the MAC verification only for a string *)
(* of at least 4 parts with an 8-digit date, an all-digit serial and a      *)
(* gates part of positive length divisible by 4 and of decimal digits only; *)
(* every other string gives valid = False with a structural error           *)
StructuralParse ==
  codec.op = "parse" =>
    /\ ReachesMac(codec.qr) => WellStructured(codec.qr)
    /\ ~WellStructured(codec.qr) =>
          /\ ~codec.raised /\ ~codec.valid
          /\ parse_qr_code(codec.qr).error \in StructuralErrors

(* what parse_qr_code does: the MAC verification is reached exactly by the  *)
(* strings that pass its own five tests                                     *)
StructuralParseAsCoded ==
  codec.op = "parse" =>
    /\ ReachesMac(codec.qr) <=> StructurallyParses(codec.qr)
    /\ ~StructurallyParses(codec.qr) => ~codec.raised /\ ~codec.valid

(* a string with an empty gates part or a gate code that is not a number    *)
(* was accepted                                                             *)
IllFormedAccepted ==
  codec.op = "parse" /\ codec.valid /\ (codec.qr.gatesEmpty \/ ~codec.qr.codesOK)

(* a call of validate_and_log_ticket by scanner s returns 'Valid Entry' in  *)
(* this step                                                                *)
ValidEntryReturned(s) ==
  /\ spc[s] = "update" /\ sloc[s].op = "log" /\ spc'[s] = "idle"
  /\ decision'[s].valid /\ decision'[s].reason = ValidEntry

(* the other rows of the store and the other stores stay as they are *)
OthersUnchanged(st, r) ==
  /\ \A r2 \in DOMAIN tickets[st] \ {r} :
        r2 \in DOMAIN tickets'[st] /\ tickets'[st][r2] = tickets[st][r2]
  /\ \A st2 \in Stores \ {st} : tickets'[st2] = tickets[st2]

(* C37: a scan at gate G that returns 'Valid Entry' changes, in the store   *)
(* of the scanning gate only, exactly used[G] (+1) and is_synced (to 0) of  *)
(* the row of the scanned ticket (last_scan, a time stamp no decision       *)
(* reads, is not kept in the rows of the model); the counters of the other  *)
(* gates, every pax value, every other row and every other store stay       *)
SuccessfulScanEffect ==
  [][\A s \in Scanners : ValidEntryReturned(s) =>
        LET st == sloc[s].store
            r == sloc[s].ref
            g == sloc[s].short
        IN /\ HasRow(st, r)
           /\ DOMAIN tickets'[st] = DOMAIN tickets[st]
           /\ tickets'[st][r] = [tickets[st][r] EXCEPT !.used[g] = @ + 1, !.is_synced = 0]
           /\ OthersUnchanged(st, r)]_vars

(* the same for a ticket the store holds; a ticket it does not hold gets    *)
(* its row in the same step, with the date and the pax values of the        *)
(* scanned string, no entries used but the one admitted and is_synced = 0   *)
SuccessfulScanEffectOrBirth ==
  [][\A s \in Scanners : ValidEntryReturned(s) =>
        LET st == sloc[s].store
            r == sloc[s].ref
            g == sloc[s].short
            born == Row(r[1], [x \in Gates |-> sloc[s].gate_info[gate_mapping[x]]], ZeroMap, 0)
            before == IF HasRow(st, r) THEN tickets[st][r] ELSE born
        IN /\ DOMAIN tickets'[st] = DOMAIN tickets[st] \cup {r}
           /\ tickets'[st][r] = [before EXCEPT !.used[g] = @ + 1, !.is_synced = 0]
           /\ OthersUnchanged(st, r)]_vars

(* a scan has returned 'Valid Entry' and the row shows its entry *)
SuccessfulScanEffectWitness ==
  \E s \in Scanners :
    /\ decision[s].op = "log" /\ decision[s].valid /\ decision[s].reason = ValidEntry
    /\ spc[s] = "idle"
    /\ HasRow(decision[s].store, <<1, 3>>)
    /\ tickets[decision[s].store][<<1, 3>>].used["A"] = decision[s].persons_entered
    /\ tickets[decision[s].store][<<1, 3>>].is_synced = 0

(* the live processes of a service: the one self.processes holds and the    *)
(* ones that were replaced while alive                                      *)
LiveInstances(name) ==
  mgr.proc[name].orphans + (IF mgr.proc[name].state = "alive" THEN 1 ELSE 0)

(* C38: one instance per service. At every moment at most one live process  *)
(* exists for each service name, and no step of the supervisor starts a     *)
(* process of a service whose previous process is still alive after the     *)
(* step, at start-up, in the restarts of the health poll and in shutdown    *)
OneInstancePerService ==
  \A name \in ServiceNames : LiveInstances(name) <= 1

(* a worker that died was replaced by the health poll and its successor is  *)
(* the only live process of the service, also while the services are stopped *)
OneInstancePerServiceWitness ==
  /\ mgr.proc["fetch"].gen = 2 /\ mgr.proc["fetch"].state = "alive"
  /\ LiveInstances("fetch") = 1
  /\ mgr.pc = "term" /\ mgr.requested

(* C39: no start after shutdown is requested. Once a termination signal has *)
(* set running to False, no step of the supervisor starts or restarts a     *)
(* worker process: no service gets a new process                            *)
NoStartAfterSignal ==
  [][mgr.requested => \A name \in ServiceNames : mgr'.proc[name].gen = mgr.proc[name].gen]_vars

(* the signal came while the supervisor was past start-up, and no process   *)
(* is started after it                                                      *)
NoStartAfterSignalInLoop ==
  [][mgr.requested /\ mgr.pc \in {"loop", "stop", "term", "join", "kill", "clear", "done"} =>
       \A name \in ServiceNames : mgr'.proc[name].gen = mgr.proc[name].gen]_vars

(* a row that is in the store before the step and gone after it *)
Removed(st, r) == r \in DOMAIN tickets[st] /\ r \notin DOMAIN tickets'[st]

(* C40: cleanup does not destroy unreported admissions. The cleanup worker  *)
(* deletes a ticket row only when its is_synced is 1: a row with admissions *)
(* central has not accepted yet is never removed from a store               *)
CleanupKeepsUnsynced ==
  [][\A st \in Stores : \A r \in Refs : Removed(st, r) => tickets[st][r].is_synced = 1]_vars

(* what the DELETE does: the rows it removes are the rows booked for a day  *)
(* before today, whatever their is_synced                                   *)
CleanupDeletesByDate ==
  [][\A st \in Stores : \A r \in Refs : Removed(st, r) => tickets[st][r].booking_date < today]_vars

====
